---- MODULE Spec2Model ----
(***************************************************************************)
(* PokHo (MouseMan32/PokHo): the PK6 record decoder and the X/Y box-region *)
(* scorer / assembler of api/parsers/gen6_xy.mjs, with the older decoder   *)
(* of api/parsers/gen6_xy.js.                                              *)
(*                                                                         *)
(* Buffers are sequences of bytes (0..255); a JavaScript offset o is the   *)
(* sequence index o+1.  A 32-bit unsigned value is a pair <<hi, lo>> of    *)
(* 16-bit halves, so every product and sum stays inside TLC's integers     *)
(* while the arithmetic is exactly arithmetic modulo 2^32.                 *)
(***************************************************************************)
EXTENDS Integers, Sequences, FiniteSets, TLC

VARIABLES
  slotBuf,   \* the slice handed to the record decoder
  src,       \* how slotBuf was built (seed, plaintext fields, tampering)
  buf,       \* the save blob handed to the scorers and the assembler
  op,        \* the last operation called and its arguments
  ret,       \* what that operation returned
  meta,      \* the persisted metadata of the save (api/index.js)
  cache      \* the boxes cache file of the save (api/index.js)

vars == <<slotBuf, src, buf, op, ret, meta, cache>>

(***************************************************************************)
(* Program constants                                                       *)
(***************************************************************************)
SLOT_SIZE == 232
PAYLOAD == 224
BLOCK == 56
MAX_SPECIES == 721
SHINY_BELOW == 16

W8 == 16 * 16
W16 == 256 * 256

(* The values a call can come back with besides a result record. *)
Null == [null |-> TRUE]
Throw == [throw |-> TRUE]
IsRecord(r) == "checksumOK" \in DOMAIN r

(***************************************************************************)
(* Bytes, words, xor                                                       *)
(***************************************************************************)
RECURSIVE XorBits(_, _, _)
XorBits(a, b, n) ==
  IF n = 0 THEN 0
  ELSE (((a % 2) + (b % 2)) % 2) + (2 * XorBits(a \div 2, b \div 2, n - 1))

XorNib == [a \in 0..15 |-> [b \in 0..15 |-> XorBits(a, b, 4)]]

Xor8(a, b) == (16 * XorNib[a \div 16][b \div 16]) + XorNib[a % 16][b % 16]

Xor16(a, b) == (W8 * Xor8(a \div W8, b \div W8)) + Xor8(a % W8, b % W8)

(* A byte sequence built by a rule, evaluated once into a plain sequence. *)
Bytes(f, n) == SubSeq(f, 1, n)

(* Buffer.subarray(start, end) *)
subarray(b, start, end) == SubSeq(b, start + 1, end)

readUInt8(b, o) == b[o + 1]
readUInt16LE(b, o) == b[o + 1] + (W8 * b[o + 2])
readUInt32LE(b, o) == <<readUInt16LE(b, o + 2), readUInt16LE(b, o)>>

(***************************************************************************)
(* Keystream                                                               *)
(***************************************************************************)
(* A JavaScript number that an int32 operation and a small sum can give:
   its value is sign * 2^32 + bits, bits an unsigned 32-bit pair. *)
Number32(sign, bits) == [sign |-> sign, bits |-> bits]

(* The low 32 bits of a * b, for a factor b with both halves below 2^15 *)
Mul32(a, b, lo32) ==
  << ((lo32 \div W16) + ((a[1] * b[2]) % W16) + ((a[2] * b[1]) % W16)) % W16, lo32 % W16 >>

Signed32(bits) == Number32(IF bits[1] >= W16 \div 2 THEN 0 - 1 ELSE 0, bits)

(* Math.imul(a, b): the low 32 bits of the product, read as a signed int32 *)
imul(a, b) == Signed32(Mul32(a, b, a[2] * b[2]))

Carried(n, hi, lo) == Number32(n.sign + (hi \div W16), <<hi % W16, lo % W16>>)

(* n + c for a number c in 0..65535: exact, a double holds the sum *)
Plus(n, c) == Carried(n, n.bits[1] + ((n.bits[2] + c) \div W16), n.bits[2] + c)

(* Negative sums taken for 0. *)
ToUint32_clamp(n) == IF n.sign < 0 THEN <<0, 0>> ELSE n.bits

(* n >>> 0: the value modulo 2^32 *)
ToUint32(n) == n.bits

(* 0x41C64E6D = 16838 * 2^16 + 20077, 0x6073 = 24691 *)
LCRNG_MUL == <<16838, 20077>>
LCRNG_ADD == 24691

(* (Math.imul(seed, 0x41c64e6d) + 0x6073) >>> 0 *)
lcrng_next(seed) == ToUint32(Plus(imul(seed, LCRNG_MUL), LCRNG_ADD))

(* seed % 24 for the unsigned 32-bit seed: 2^16 % 24 = 16 *)
Mod24(ec) == (((ec[1] % 24) * 16) + (ec[2] % 24)) % 24

(* The seeds after 1, 2, ..., n steps of the loop of decrypt224. *)
RECURSIVE SeedsAfter(_, _)
SeedsAfter(seed, n) ==
  IF n = 0 THEN <<>>
  ELSE IF n = 1 THEN <<lcrng_next(seed)>>
  ELSE LET first == SeedsAfter(seed, n \div 2)
       IN first \o SeedsAfter(first[Len(first)], n - (n \div 2))

(* Byte j (from 1) of a buffer of 16-bit little-endian words xor-ed with
   the keys: the low byte of word (j+1)/2 when j is odd, else its high byte. *)
XorWords(enc, keys, j) ==
  Xor8(enc[j], IF j % 2 = 1 THEN keys[(j + 1) \div 2] % W8
                              ELSE keys[(j + 1) \div 2] \div W8)

(* key = (seed >>> 16) & 0xffff of every seed of the loop *)
KeysOf(seeds) == Bytes([k \in 1..Len(seeds) |-> seeds[k][1]], Len(seeds))

decrypt224_with(enc224, keys) ==
  Bytes([j \in 1..PAYLOAD |-> XorWords(enc224, keys, j)], PAYLOAD)

decrypt224_reset(enc224, ec) ==
  decrypt224_with(enc224, [k \in 1..(PAYLOAD \div 2) |-> lcrng_next(ec)[1]])

decrypt224(enc224, ec) ==
  decrypt224_with(enc224, KeysOf(SeedsAfter(ec, PAYLOAD \div 2)))

(***************************************************************************)
(* Block order                                                             *)
(***************************************************************************)
ORDERS_dup ==
  << <<0,1,2,3>>, <<0,1,3,2>>, <<0,2,1,3>>, <<0,2,3,1>>, <<0,3,1,2>>, <<0,3,2,1>>,
     <<1,0,2,3>>, <<1,0,3,2>>, <<2,0,1,3>>, <<3,0,1,2>>, <<1,2,0,3>>, <<1,3,0,2>>,
     <<2,1,0,3>>, <<3,1,0,2>>, <<2,1,3,0>>, <<3,1,2,0>>, <<2,3,0,1>>, <<3,2,0,1>>,
     <<1,2,3,0>>, <<1,3,2,0>>, <<2,3,1,0>>, <<3,2,1,0>>, <<3,2,1,0>>, <<3,2,1,0>> >>

ORDERS ==
  << <<0,1,2,3>>, <<0,1,3,2>>, <<0,2,1,3>>, <<0,2,3,1>>, <<0,3,1,2>>, <<0,3,2,1>>,
     <<1,0,2,3>>, <<1,0,3,2>>, <<2,0,1,3>>, <<3,0,1,2>>, <<1,2,0,3>>, <<1,3,0,2>>,
     <<2,1,0,3>>, <<3,1,0,2>>, <<2,1,3,0>>, <<3,1,2,0>>, <<2,3,0,1>>, <<3,2,0,1>>,
     <<1,2,3,0>>, <<1,3,2,0>>, <<2,3,1,0>>, <<3,2,1,0>>, <<3,0,2,1>>, <<2,0,3,1>> >>

(* The table of gen6_xy.js: its last three rows repeat row 21. *)
ORDERS_JS ==
  << <<0,1,2,3>>, <<0,1,3,2>>, <<0,2,1,3>>, <<0,2,3,1>>, <<0,3,1,2>>, <<0,3,2,1>>,
     <<1,0,2,3>>, <<1,0,3,2>>, <<2,0,1,3>>, <<3,0,1,2>>, <<1,2,0,3>>, <<1,3,0,2>>,
     <<2,1,0,3>>, <<3,1,0,2>>, <<2,1,3,0>>, <<3,1,2,0>>, <<2,3,0,1>>, <<3,2,0,1>>,
     <<1,2,3,0>>, <<1,3,2,0>>, <<2,3,1,0>>, <<3,2,1,0>>, <<3,2,1,0>>, <<3,2,1,0>> >>

(* Array.prototype.indexOf: the first 0-based position of v, or -1 *)
indexOf(order, v) ==
  IF \E p \in 1..Len(order) : order[p] = v
  THEN (CHOOSE p \in 1..Len(order) :
          order[p] = v /\ \A q \in 1..(p - 1) : order[q] # v) - 1
  ELSE -1

(* The 0-based position in the payload of the block copied to each logical
   place 0..3, as a sequence indexed by logical + 1. *)
BlockSources_direct(ec) == [l \in 1..4 |-> ORDERS[Mod24(ec) + 1][l]]

BlockSources(ec) == [l \in 1..4 |-> indexOf(ORDERS[Mod24(ec) + 1], l - 1)]

(* blocks[from].copy(out, p) for logical = 0..3: byte j (from 1) of out *)
CopyBlocks(blocks, from) ==
  Bytes([j \in 1..PAYLOAD |->
     blocks[(from[((j - 1) \div BLOCK) + 1] * BLOCK) + ((j - 1) % BLOCK) + 1]], PAYLOAD)

unshuffleBlocks(decrypted224, ec) == CopyBlocks(decrypted224, BlockSources(ec))

(* gen6_xy.js: called with key % 24, reduced again by Math.abs(..) % 24 *)
BlockSourcesJs(orderIndex) ==
  [l \in 1..4 |-> indexOf(ORDERS_JS[(orderIndex % 24) + 1], l - 1)]

unshuffleBlocksJs(decrypted224, orderIndex) ==
  CopyBlocks(decrypted224, BlockSourcesJs(orderIndex))

(***************************************************************************)
(* Checksum                                                                *)
(***************************************************************************)
(* The sum of the 16-bit little-endian words at offsets a, a+2, ..., b-2,
   reduced modulo 2^16 at every addition. *)
RECURSIVE WordSum(_, _, _)
WordSum(b, lo, hi) ==
  IF hi - lo = 2 THEN readUInt16LE(b, lo)
  ELSE LET mid == lo + (2 * ((hi - lo) \div 4))
       IN (WordSum(b, lo, mid) + WordSum(b, mid, hi)) % W16

RECURSIVE ByteSum(_, _, _)
ByteSum(b, lo, hi) ==
  IF hi - lo = 1 THEN b[lo + 1]
  ELSE LET mid == lo + ((hi - lo) \div 2)
       IN (ByteSum(b, lo, mid) + ByteSum(b, mid, hi)) % W16

sum16le_bytes(b) == IF Len(b) = 0 THEN 0 ELSE ByteSum(b, 0, Len(b))

sum16le(b) == IF Len(b) = 0 THEN 0 ELSE WordSum(b, 0, Len(b))

(***************************************************************************)
(* Record decoders                                                         *)
(***************************************************************************)
(* What the body of decodePK6 does once its length guard has let the slice
   through: every read is inside the first 232 bytes, and a slice shorter
   than that makes one of the readUInt16LE calls raise a RangeError.  The
   preview string and the SHA-1 tag of the result are left out: they are
   derived from the fields below and from the slice itself.                *)
(* shinyXor = ((pid & 0xffff) ^ (pid >>> 16) ^ tid ^ sid) & 0xffff; shinyXor < 16 *)
(* The high half of the personality value left out. *)
shiny_lowOnly(pid, tid, sid) == Xor16(pid[2], Xor16(tid, sid)) < SHINY_BELOW

shiny(pid, tid, sid) == Xor16(Xor16(pid[2], pid[1]), Xor16(tid, sid)) < SHINY_BELOW

(* The result object of decodePK6 *)
pk6(checksumOK, species, nature, pid, tid, sid) ==
  [checksumOK |-> checksumOK,
   species |-> species, nature |-> nature, pid |-> pid,
   tid |-> tid, sid |-> sid, shiny |-> shiny(pid, tid, sid)]

(* The fields of the unshuffled data, and its sum against the checksum *)
pk6Fields(data, checksum) ==
  pk6(sum16le(data) = checksum,
      readUInt16LE(data, 8), readUInt8(data, 28), readUInt32LE(data, 0),
      readUInt16LE(data, 12), readUInt16LE(data, 14))

decodeSlice(b, ec) ==
  pk6Fields(unshuffleBlocks(decrypt224(subarray(b, 8, 8 + PAYLOAD), ec), ec),
            readUInt16LE(b, 4))

decodeBody(b) ==
  IF Len(b) < SLOT_SIZE THEN Throw ELSE decodeSlice(b, readUInt32LE(b, 0))

decodePK6(b) == IF Len(b) < SLOT_SIZE THEN Null ELSE decodeBody(b)

(* gen6_xy.js *)
(* The result object of decryptPk6 *)
pk6Js(key, checksum, checksumOK, species, heldItem, tid, sid, exp, ability, abilityNumber, pid, nature) ==
  [key |-> key, checksum |-> checksum, checksumOK |-> checksumOK,
   species |-> species, heldItem |-> heldItem, tid |-> tid, sid |-> sid,
   exp |-> exp, ability |-> ability, abilityNumber |-> abilityNumber,
   pid |-> pid, nature |-> nature,
   shiny |-> Xor16(Xor16(tid, sid), Xor16(pid[2], pid[1])) < SHINY_BELOW]

pk6JsFields(key, checksum, checksumOK, unshuffled) ==
  pk6Js(key, checksum, checksumOK,
        readUInt16LE(unshuffled, 0), readUInt16LE(unshuffled, 2),
        readUInt16LE(unshuffled, 4), readUInt16LE(unshuffled, 6),
        readUInt32LE(unshuffled, 8), readUInt8(unshuffled, 12),
        readUInt8(unshuffled, 13), readUInt32LE(unshuffled, 16),
        readUInt8(unshuffled, 20))

(* The checksum is summed over the decrypted bytes, before the unshuffle *)
decryptedPk6(key, checksum, dec) ==
  pk6JsFields(key, checksum, sum16le(dec) = checksum,
              unshuffleBlocksJs(dec, Mod24(key)))

decryptSlot(b, key) ==
  decryptedPk6(key, readUInt16LE(b, 6), decrypt224(subarray(b, 8, SLOT_SIZE), key))

decryptPk6(b) ==
  IF Len(b) # SLOT_SIZE THEN Null ELSE decryptSlot(b, readUInt32LE(b, 0))

(***************************************************************************)
(* Test records: the inverse pipeline (plaintext -> checksum -> shuffle -> *)
(* encrypt), written independently of the decoder.                         *)
(***************************************************************************)
MaxSeedLo == 23

(* seed * 0x41C64E6D + 0x6073 modulo 2^32 by schoolbook multiplication on
   bytes: 0x41C64E6D = 65,198,78,109 and 0x6073 = 96,115. *)
RefNext(seed) ==
  LET s0 == seed[2] % W8   s1 == seed[2] \div W8
      s2 == seed[1] % W8   s3 == seed[1] \div W8
      d0 == (s0 * 109) + 115
      d1 == (s0 * 78) + (s1 * 109) + 96 + (d0 \div W8)
      d2 == (s0 * 198) + (s1 * 78) + (s2 * 109) + (d1 \div W8)
      d3 == (s0 * 65) + (s1 * 198) + (s2 * 78) + (s3 * 109) + (d2 \div W8)
  IN <<(d2 % W8) + (W8 * (d3 % W8)), (d0 % W8) + (W8 * (d1 % W8))>>

(* The upper halves of the seeds after 1, 2, ..., n steps. *)
RECURSIVE RefSeeds(_, _)
RefSeeds(seed, n) ==
  IF n = 0 THEN <<>>
  ELSE IF n = 1 THEN <<RefNext(seed)>>
  ELSE LET first == RefSeeds(seed, n \div 2)
       IN first \o RefSeeds(first[Len(first)], n - (n \div 2))

UpperHalves(ss) == Bytes([k \in 1..Len(ss) |-> ss[k][1]], Len(ss))

RefKeys(seed, n) == UpperHalves(RefSeeds(seed, n))

LE16(v) == <<v % W8, v \div W8>>
LE32(p) == LE16(p[2]) \o LE16(p[1])

Overlay(base, o, bytes) ==
  Bytes([j \in 1..Len(base) |->
     IF j > o /\ j <= o + Len(bytes) THEN bytes[j - o] ELSE base[j]], Len(base))

(* Where each decoder reads the declared checksum and its fields. *)
Layouts ==
  [mjs |-> [chk |-> 4, pid |-> 0, species |-> 8, tid |-> 12, sid |-> 14, nature |-> 28],
   js  |-> [chk |-> 6, pid |-> 16, species |-> 0, tid |-> 4, sid |-> 6, nature |-> 20]]

OrderOf(layout, seed) ==
  IF layout = "mjs" THEN ORDERS[Mod24(seed) + 1] ELSE ORDERS_JS[Mod24(seed) + 1]

(* 224 plaintext bytes: a filler that differs from block to block, with the
   fields written at the layout's offsets. *)
Filler == Bytes([j \in 1..PAYLOAD |-> ((j * 37) + 11) % W8], PAYLOAD)

PlainAt(L, f) ==
  Overlay(Overlay(Overlay(Overlay(Overlay(Filler,
     L.pid, LE32(f.pid)), L.species, LE16(f.species)),
     L.tid, LE16(f.tid)), L.sid, LE16(f.sid)), L.nature, <<f.nature>>)

Plain(layout, f) == PlainAt(Layouts[layout], f)

(* Position p of the shuffled payload holds logical block order[p]. *)
Shuffled(plain, order) ==
  Bytes([j \in 1..PAYLOAD |->
     plain[(order[((j - 1) \div BLOCK) + 1] * BLOCK) + ((j - 1) % BLOCK) + 1]], PAYLOAD)

KeyByte(ks, j) ==
  IF j % 2 = 1 THEN ks[(j + 1) \div 2] % W8 ELSE ks[(j + 1) \div 2] \div W8

EncryptedWith(shuffled, ks) ==
  Bytes([j \in 1..PAYLOAD |-> Xor8(shuffled[j], KeyByte(ks, j))], PAYLOAD)

Encrypted(shuffled, seed) == EncryptedWith(shuffled, RefKeys(seed, PAYLOAD \div 2))

(* The sum modulo 2^16 of words first..last (counted from 1) of a payload. *)
RECURSIVE RefSumRange(_, _, _)
RefSumRange(b, first, last) ==
  IF first > last THEN 0
  ELSE IF first = last THEN b[(2 * first) - 1] + (W8 * b[2 * first])
  ELSE LET mid == (first + last) \div 2
       IN (RefSumRange(b, first, mid) + RefSumRange(b, mid + 1, last)) % W16

RefSum(b, n) == RefSumRange(b, 1, n)

(* A record as the encoder writes it; how = "ok", or one way to spoil it:
   "chk" a declared checksum one too high, "byte" one payload bit flipped,
   "short" the last byte missing, "long" one byte appended. *)
Header(s, declared) ==
  IF Layouts[s.layout].chk = 4
  THEN LE32(s.seed) \o LE16(declared) \o <<0, 0>>
  ELSE LE32(s.seed) \o <<0, 0>> \o LE16(declared)

Declared(s, sum) == IF s.how = "chk" THEN (sum + 1) % W16 ELSE sum

Payload(s, enc) ==
  IF s.how = "byte" THEN [enc EXCEPT ![100] = Xor8(enc[100], 1)] ELSE enc

Cut(s, whole) ==
  CASE s.how = "short" -> SubSeq(whole, 1, SLOT_SIZE - 1)
    [] s.how = "long"  -> whole \o <<7>>
    [] OTHER           -> whole

RecordOf(s, plain) ==
  Cut(s, Header(s, Declared(s, RefSum(plain, PAYLOAD \div 2)))
           \o Payload(s, Encrypted(Shuffled(plain, OrderOf(s.layout, s.seed)), s.seed)))

Record(s) == RecordOf(s, Plain(s.layout, s.f))

(* Plaintext fields: an ordinary record; a rare one (1 xor 2 xor 3 xor 8 = 8)
   with the highest identity code; one with personality value 0; one with
   the identity code just out of range and every other field at its
   maximum (rare as well: the four halves cancel). *)
F_plain == [pid |-> <<4660, 22136>>, species |-> 25, tid |-> 1000, sid |-> 2000, nature |-> 3]
F_rare == [pid |-> <<1, 2>>, species |-> 721, tid |-> 3, sid |-> 8, nature |-> 24]
F_pid0 == [pid |-> <<0, 0>>, species |-> 1, tid |-> 40000, sid |-> 513, nature |-> 0]
F_out == [pid |-> <<65535, 65535>>, species |-> 722, tid |-> 65535, sid |-> 65535, nature |-> 255]

FieldSets == { F_plain, F_rare, F_pid0, F_out }

Seeds == { <<h, l>> : h \in {0, 40000}, l \in 0..MaxSeedLo }

Sources ==
  [layout : {"mjs", "js"}, seed : Seeds, f : FieldSets,
   how : {"ok", "chk", "byte", "short", "long"}]

(***************************************************************************)
(* The decoder called on one slice                                         *)
(***************************************************************************)
InitDecode ==
  /\ src \in Sources
  /\ slotBuf = Record(src)
  /\ buf = <<>>
  /\ op = [name |-> "none"]
  /\ ret = Null
  /\ meta = Null
  /\ cache = Null

CallDecodePK6 ==
  /\ op' = [name |-> "decodePK6"]
  /\ ret' = decodePK6(slotBuf)
  /\ UNCHANGED <<slotBuf, src, buf, meta, cache>>

CallDecryptPk6 ==
  /\ op' = [name |-> "decryptPk6"]
  /\ ret' = decryptPk6(slotBuf)
  /\ UNCHANGED <<slotBuf, src, buf, meta, cache>>

(* unshuffleBlocks on the 224 bytes after the header, as they are *)
CallUnshuffle ==
  /\ Len(slotBuf) >= SLOT_SIZE
  /\ op' = [name |-> "unshuffleBlocks"]
  /\ ret' = [out |-> unshuffleBlocks(subarray(slotBuf, 8, SLOT_SIZE), readUInt32LE(slotBuf, 0))]
  /\ UNCHANGED <<slotBuf, src, buf, meta, cache>>

NextDecode == CallDecodePK6 \/ CallDecryptPk6 \/ CallUnshuffle

SpecDecode == InitDecode /\ [][NextDecode]_vars

(***************************************************************************)
(* Properties of the record decoder                                        *)
(***************************************************************************)
(* The decoder a test record was written for. *)
OwnDecoder ==
  \/ op.name = "decodePK6" /\ src.layout = "mjs"
  \/ op.name = "decryptPk6" /\ src.layout = "js"

SameFields(r, f) ==
  /\ r.species = f.species
  /\ r.tid = f.tid
  /\ r.sid = f.sid
  /\ r.nature = f.nature
  /\ r.pid = f.pid

(* C1: round trip.  A record written by the encoder (checksum of the
   plaintext, blocks shuffled by the order the seed selects, payload
   xor-ed with the seed's keystream) decodes to checksumOK = TRUE and to the
   identity code, trainer ID, secret ID, nature and personality value of the
   plaintext. *)
C1_RoundTrip ==
  (OwnDecoder /\ src.how = "ok") =>
     (IsRecord(ret) /\ ret.checksumOK = TRUE /\ SameFields(ret, src.f))

(* A round trip through a block order that is not its own inverse, with a
   seed above 2^31. *)
C1_Witness ==
  /\ op.name = "decodePK6" /\ src.layout = "mjs" /\ src.how = "ok"
  /\ src.seed[1] = 40000 /\ Mod24(src.seed) = 3
  /\ IsRecord(ret) /\ ret.checksumOK = TRUE /\ ret.species = 25

IsPermutation(o) == Len(o) = 4 /\ { o[i] : i \in 1..4 } = 0..3

AllPermutations ==
  { <<a, b, c, d>> : a \in 0..3, b \in 0..3, c \in 0..3, d \in 0..3 }
    \cap { o \in [1..4 -> 0..3] : IsPermutation(o) }

(* C2: the block-order table the decoder unshuffles with has exactly 24
   entries, each a permutation of {0,1,2,3}, no two of them equal: its
   entries are all 24 permutations. *)
C2_TableComplete ==
  op.name \in {"decodePK6", "unshuffleBlocks"} =>
    /\ Len(ORDERS) = 24
    /\ \A i \in 1..Len(ORDERS) : IsPermutation(ORDERS[i])
    /\ \A i, j \in 1..Len(ORDERS) : i # j => ORDERS[i] # ORDERS[j]
    /\ { ORDERS[i] : i \in 1..Len(ORDERS) } = AllPermutations

(* The last row of the table is in use and is none of the rows before it. *)
C2_Witness ==
  /\ op.name = "unshuffleBlocks"
  /\ Mod24(src.seed) = 23
  /\ \A i \in 1..23 : ORDERS[i] # ORDERS[24]

BlockAt(b, k) == SubSeq(b, (k * BLOCK) + 1, (k + 1) * BLOCK)

PayloadOf(b) == subarray(b, 8, SLOT_SIZE)

(* C3 as stated: output block L is the payload block at position
   T[s mod 24][L]. *)
C3_DirectLookup ==
  op.name = "unshuffleBlocks" =>
    \A L \in 0..3 :
      BlockAt(ret.out, L) =
        BlockAt(PayloadOf(slotBuf), ORDERS[Mod24(readUInt32LE(slotBuf, 0)) + 1][L + 1])

(* C3 amended: the table row is read as position -> logical block.  Output
   block L is the payload block at the position p with T[s mod 24][p] = L,
   so the output holds the four blocks in logical order 0,1,2,3. *)
C3_InverseLookup ==
  op.name = "unshuffleBlocks" =>
    /\ Len(ret.out) = PAYLOAD
    /\ \A L \in 0..3 : \A p \in 0..3 :
         ORDERS[Mod24(readUInt32LE(slotBuf, 0)) + 1][p + 1] = L =>
           BlockAt(ret.out, L) = BlockAt(PayloadOf(slotBuf), p)

(* An unshuffle through a row that is not its own inverse. *)
C3_Witness ==
  /\ op.name = "unshuffleBlocks"
  /\ Mod24(readUInt32LE(slotBuf, 0)) = 9
  /\ BlockAt(ret.out, 0) = BlockAt(PayloadOf(slotBuf), 1)
  /\ BlockAt(ret.out, 0) # BlockAt(PayloadOf(slotBuf), 3)

(* C4 as stated: decode returns null exactly when the slice is not 232
   bytes long, and a record with checksumOK, never an exception, for every
   slice of 232 bytes. *)
C4_NullIffNot232 ==
  op.name = "decodePK6" =>
    /\ (ret = Null) <=> (Len(slotBuf) # SLOT_SIZE)
    /\ (Len(slotBuf) = SLOT_SIZE) => (IsRecord(ret) /\ ret.checksumOK \in BOOLEAN)

(* The payload of a slice with the keystream of its seed taken off again,
   by the encoder's own keystream. *)
Decrypted(b) == Encrypted(PayloadOf(b), readUInt32LE(b, 0))

(* C5: checksumOK is TRUE exactly when the 112 little-endian words of the
   decrypted payload sum, modulo 65536, to the declared checksum of the
   header, whatever block order the seed selects and whatever the fields
   hold. *)
C5_ChecksumOK ==
  /\ (op.name = "decodePK6" /\ IsRecord(ret)) =>
        (ret.checksumOK =
           (RefSum(Decrypted(slotBuf), PAYLOAD \div 2) = readUInt16LE(slotBuf, 4)))
  /\ (op.name = "decryptPk6" /\ IsRecord(ret)) =>
        (ret.checksumOK =
           (RefSum(Decrypted(slotBuf), PAYLOAD \div 2) = readUInt16LE(slotBuf, 6)))

(* A record whose checksum holds although its identity code is out of
   range, decoded through a block order that is not its own inverse. *)
C5_Witness ==
  /\ op.name = "decodePK6" /\ src.layout = "mjs" /\ src.how = "ok"
  /\ Mod24(src.seed) = 9
  /\ ret.checksumOK = TRUE /\ ret.species > MAX_SPECIES

(***************************************************************************)
(* Region scoring and box assembly (gen6_xy.mjs)                           *)
(*                                                                         *)
(* The grid of the program is 31 boxes of 30 slots.  The model keeps the   *)
(* 232-byte slot and scales the grid: BOXES and SLOTS_PER_BOX are bounds.  *)
(* A score is carried as four times its value (score4), so that the        *)
(* weights 2, 1, 0.25 and 0.5 are the integers 8, 4, 1 and 2.              *)
(***************************************************************************)
BOXES == 9
SLOTS_PER_BOX == 8
TotalSlots == BOXES * SLOTS_PER_BOX

FAST_OOB_PENALTY == 5

isAllZero_firstByte(slice) == Len(slice) = 0 \/ slice[1] = 0

isAllZero(slice) == \A j \in 1..Len(slice) : slice[j] = 0

PlausibleSpecies(d) == d.species >= 1 /\ d.species <= MAX_SPECIES

(* The zero test of a slot and, if it has a nonzero byte, its decode.  The
   trace lists the calls made, in the order they are made.  First the
   other order: decode, then test. *)
Examine_decodeFirst(slice, i) ==
  [zero |-> isAllZero(slice), d |-> decodePK6(slice),
   trace |-> << <<"decode", i>>, <<"isAllZero", i>> >>]

Examine(slice, i) ==
  IF isAllZero(slice)
  THEN [zero |-> TRUE, d |-> Null, trace |-> << <<"isAllZero", i>> >>]
  ELSE [zero |-> FALSE, d |-> decodePK6(slice),
        trace |-> << <<"isAllZero", i>>, <<"decode", i>> >>]

(* try { d = decodePK6(slice) } catch { d = null } *)
Caught(d) == IF d = Throw THEN Null ELSE d

(* The counters of scoreXYRegion after one nonzero slot with decode d. *)
FullCount_strict(a, d) ==
  IF IsRecord(d) /\ d.checksumOK = TRUE /\ PlausibleSpecies(d)
  THEN [a EXCEPT !.ok = @ + 1,
                 !.shinyCount = IF d.shiny THEN @ + 1 ELSE @,
                 !.plausibleSpecies = @ + 1]
  ELSE [a EXCEPT !.bad = @ + 1]

(* The same without the count of plausible identity codes. *)
FullCount_noPlausible(a, d) ==
  IF IsRecord(d) /\ d.checksumOK = TRUE
  THEN [a EXCEPT !.ok = @ + 1, !.shinyCount = IF d.shiny THEN @ + 1 ELSE @]
  ELSE [a EXCEPT !.bad = @ + 1]

FullCount(a, d) ==
  IF IsRecord(d) /\ d.checksumOK = TRUE
  THEN [a EXCEPT !.ok = @ + 1,
                 !.shinyCount = IF d.shiny THEN @ + 1 ELSE @,
                 !.plausibleSpecies = IF PlausibleSpecies(d) THEN @ + 1 ELSE @]
  ELSE [a EXCEPT !.bad = @ + 1]

(* The counters after one slot in range, examined as e *)
FullStep(a, e) ==
  IF e.zero
  THEN [a EXCEPT !.trace = @ \o e.trace, !.zeros = @ + 1]
  ELSE FullCount([a EXCEPT !.trace = @ \o e.trace], Caught(e.d))

(* One turn of the loop over the slots: the counters a before slot i give
   the counters after it.  stop is set by a break:
   if (end > buf.length) { bad += (totalSlots - i); break; } *)
FullIter(b, offset, i, a) ==
  IF offset + (i * SLOT_SIZE) + SLOT_SIZE > Len(b)
  THEN [a EXCEPT !.bad = @ + (TotalSlots - i), !.stop = TRUE]
  ELSE FullStep(a, Examine(subarray(b, offset + (i * SLOT_SIZE),
                                       offset + (i * SLOT_SIZE) + SLOT_SIZE), i))

(* for (let i = 0; i < totalSlots; i++): the turns lo..hi-1 in order, none
   after a break; c: the counters after the turns before lo *)
RECURSIVE FullLoop(_, _, _, _, _)
RECURSIVE FullRest(_, _, _, _, _)
FullRest(b, offset, lo, hi, c) ==
  IF c.stop THEN c ELSE FullLoop(b, offset, lo, hi, c)

FullLoop(b, offset, lo, hi, a) ==
  IF hi <= lo THEN a
  ELSE IF hi = lo + 1 THEN FullIter(b, offset, lo, a)
  ELSE FullRest(b, offset, (lo + hi) \div 2, hi,
                FullLoop(b, offset, lo, (lo + hi) \div 2, a))

FullScore4_noShiny(a) == (8 * a.ok) + (4 * a.plausibleSpecies) - (2 * a.bad)

FullScore4(a) ==
  (8 * a.ok) + (4 * a.plausibleSpecies) + a.shinyCount - (2 * a.bad)

(* return { score, ok, zeros, bad, plausibleSpecies, shinyCount } *)
FullResult(a) ==
  [score4 |-> FullScore4(a), ok |-> a.ok, zeros |-> a.zeros, bad |-> a.bad,
   plausibleSpecies |-> a.plausibleSpecies, shinyCount |-> a.shinyCount,
   trace |-> a.trace]

scoreXYRegion(b, offset) ==
  FullResult(FullLoop(b, offset, 0, TotalSlots,
               [ok |-> 0, zeros |-> 0, bad |-> 0, shinyCount |-> 0,
                plausibleSpecies |-> 0, trace |-> <<>>, stop |-> FALSE]))

(* The counters of scoreXYRegionFast after one nonzero slot with decode d. *)
FastCount(a, d) ==
  IF IsRecord(d) /\ d.checksumOK = TRUE
  THEN [a EXCEPT !.ok = @ + 1,
                 !.plausibleSpecies = IF PlausibleSpecies(d) THEN @ + 1 ELSE @]
  ELSE [a EXCEPT !.bad = @ + 1]

(* The counters after one sampled slot i in range, examined as e *)
FastStep(a, e, i) ==
  IF e.zero
  THEN [a EXCEPT !.trace = @ \o e.trace, !.seen = @ \o <<i>>]
  ELSE FastCount([a EXCEPT !.trace = @ \o e.trace, !.seen = @ \o <<i>>], Caught(e.d))

(* The loop left one invalid slot later. *)
FastAfter_late(opts, a, c) ==
  IF c.bad > a.bad /\ c.bad > opts.badEarlyOut THEN [c EXCEPT !.stop = TRUE] ELSE c

(* opts = [sampleStride, badEarlyOut]; a: the counters before slot i, c: after
   it.  bad++; if (bad >= badEarlyOut) break; *)
FastAfter(opts, a, c) ==
  IF c.bad > a.bad /\ c.bad >= opts.badEarlyOut THEN [c EXCEPT !.stop = TRUE] ELSE c

(* One invalid count for every slot from the missing one to the last. *)
FastIter_perSlot(b, offset, opts, i, a) ==
  IF offset + (i * SLOT_SIZE) + SLOT_SIZE > Len(b)
  THEN [a EXCEPT !.bad = @ + (TotalSlots - i), !.stop = TRUE]
  ELSE FastAfter(opts, a,
         FastStep(a, Examine(subarray(b, offset + (i * SLOT_SIZE),
                                         offset + (i * SLOT_SIZE) + SLOT_SIZE), i), i))

(* One turn of the loop over the sampled slots; stop is set by a break:
   if (end > buf.length) { bad += 5; break; } *)
FastIter(b, offset, opts, i, a) ==
  IF offset + (i * SLOT_SIZE) + SLOT_SIZE > Len(b)
  THEN [a EXCEPT !.bad = @ + FAST_OOB_PENALTY, !.stop = TRUE]
  ELSE FastAfter(opts, a,
         FastStep(a, Examine(subarray(b, offset + (i * SLOT_SIZE),
                                         offset + (i * SLOT_SIZE) + SLOT_SIZE), i), i))

(* for (let i = 0; i < totalSlots; i += stride): the turns lo..hi-1 in
   order, turn k at slot k * stride, none after a break; c: the counters
   after the turns before lo *)
RECURSIVE FastLoop(_, _, _, _, _, _)
RECURSIVE FastRest(_, _, _, _, _, _)
FastRest(b, offset, opts, lo, hi, c) ==
  IF c.stop THEN c ELSE FastLoop(b, offset, opts, lo, hi, c)

FastLoop(b, offset, opts, lo, hi, a) ==
  IF hi <= lo THEN a
  ELSE IF hi = lo + 1 THEN FastIter(b, offset, opts, lo * opts.sampleStride, a)
  ELSE FastRest(b, offset, opts, (lo + hi) \div 2, hi,
                FastLoop(b, offset, opts, lo, (lo + hi) \div 2, a))

(* The number of turns: the slots 0, stride, 2 * stride, ... below totalSlots *)
FastTurns(opts) == (TotalSlots + opts.sampleStride - 1) \div opts.sampleStride

FastScore4(a) == (8 * a.ok) + (4 * a.plausibleSpecies) - (2 * a.bad)

(* return { score, ok, bad, plausibleSpecies } *)
FastResult(a) ==
  [score4 |-> FastScore4(a), ok |-> a.ok, bad |-> a.bad,
   plausibleSpecies |-> a.plausibleSpecies, trace |-> a.trace, seen |-> a.seen]

scoreXYRegionFast(b, offset, opts) ==
  FastResult(FastLoop(b, offset, opts, 0, FastTurns(opts),
               [ok |-> 0, bad |-> 0, plausibleSpecies |-> 0,
                trace |-> <<>>, seen |-> <<>>, stop |-> FALSE]))

(* readBoxes: the rule that makes a slot present *)
isValidMon_noPid(d) ==
  IsRecord(d) /\ d.checksumOK = TRUE /\ d.species >= 1 /\ d.species <= MAX_SPECIES

isValidMon(d) ==
  /\ IsRecord(d)
  /\ d.checksumOK = TRUE
  /\ d.species >= 1
  /\ d.species <= MAX_SPECIES
  /\ d.pid # <<0, 0>>

EmptyMon(s) == [slot |-> s + 1, empty |-> TRUE]

(* mons.push({ slot: s + 1, empty: false, ...d }) *)
FilledMon(s, d) ==
  [slot |-> s + 1, empty |-> FALSE,
   species |-> d.species, nature |-> d.nature, shiny |-> d.shiny, pid |-> d.pid,
   tid |-> d.tid, sid |-> d.sid, checksumOK |-> TRUE]

(* What readBoxes pushes for slot s in range, examined as e: [mon, trace] *)
SlotOf(s, e) ==
  [mon |-> IF e.zero THEN EmptyMon(s)
           ELSE IF isValidMon(e.d) THEN FilledMon(s, e.d)
           ELSE EmptyMon(s),
   trace |-> e.trace]

(* One slot of readBoxes, idx = b * SLOTS_PER_BOX + s, start = off + idx * 232 *)
BoxSlotAt(b, start, idx, s) ==
  IF start + SLOT_SIZE > Len(b)
  THEN [mon |-> EmptyMon(s), trace |-> <<>>]
  ELSE SlotOf(s, Examine(subarray(b, start, start + SLOT_SIZE), idx))

(* The same with the boxes counted in rows of BOXES slots. *)
BoxSlot_byBoxes(b, off, bx, s) ==
  BoxSlotAt(b, off + (((bx * BOXES) + s) * SLOT_SIZE), (bx * BOXES) + s, s)

BoxSlot(b, off, bx, s) ==
  BoxSlotAt(b, off + (((bx * SLOTS_PER_BOX) + s) * SLOT_SIZE), (bx * SLOTS_PER_BOX) + s, s)

(* boxes.push({ id: b + 1, mons }), with the slots' traces *)
BoxRow(bx, slots) ==
  [id |-> bx,
   mons |-> Bytes([s \in 1..SLOTS_PER_BOX |-> slots[s].mon], SLOTS_PER_BOX),
   slots |-> slots]

(* All boxes before trimming, each [id, mons, slots] *)
BoxRows(b, off) ==
  Bytes([bx \in 1..BOXES |->
     BoxRow(bx, Bytes([s \in 1..SLOTS_PER_BOX |-> BoxSlot(b, off, bx - 1, s - 1)],
                      SLOTS_PER_BOX))], BOXES)

RECURSIVE JoinTraces(_, _)
JoinTraces(slots, n) ==
  IF n = 0 THEN <<>> ELSE JoinTraces(slots, n - 1) \o slots[n].trace

RECURSIVE JoinRows(_, _)
JoinRows(rows, n) ==
  IF n = 0 THEN <<>>
  ELSE JoinRows(rows, n - 1) \o JoinTraces(rows[n].slots, SLOTS_PER_BOX)

(* lastNonEmptyBox + 1: the number of the last box holding a present slot,
   0 when there is none *)
LastNonEmpty(rows) ==
  LET full == { bx \in 1..BOXES :
                  \E s \in 1..SLOTS_PER_BOX : rows[bx].mons[s].empty = FALSE }
  IN IF full = {} THEN 0 ELSE CHOOSE bx \in full : \A o \in full : o <= bx

NoOffset == 0 - 1

(* readBoxes once findBoxRegion has settled the offset (NoOffset: null) *)
(* lastNonEmptyBox >= 0 ? boxes.slice(0, lastNonEmptyBox + 1) : boxes.slice(0, 1) *)
Trimmed_toNone(rows, last) ==
  Bytes([bx \in 1..last |-> [id |-> rows[bx].id, mons |-> rows[bx].mons]], last)

Trimmed(rows, last) ==
  Bytes([bx \in 1..(IF last >= 1 THEN last ELSE 1) |->
           [id |-> rows[bx].id, mons |-> rows[bx].mons]],
        IF last >= 1 THEN last ELSE 1)

BoxesOf(off, rows) ==
  [offset |-> off,
   boxes |-> Trimmed(rows, LastNonEmpty(rows)),
   trace |-> JoinRows(rows, BOXES)]

readBoxesAt(b, off) ==
  IF off = NoOffset
  THEN [offset |-> NoOffset, boxes |-> <<>>, trace |-> <<>>]
  ELSE BoxesOf(off, BoxRows(b, off))

(***************************************************************************)
(* Save blobs                                                              *)
(***************************************************************************)
Zeros(n) == [j \in 1..n |-> 0]

(* What a slot of a test blob holds. *)
KindSource(k) ==
  CASE k = "valid" -> [layout |-> "mjs", seed |-> <<40000, 9>>, f |-> F_plain, how |-> "ok"]
    [] k = "rare"  -> [layout |-> "mjs", seed |-> <<0, 3>>, f |-> F_rare, how |-> "ok"]
    [] k = "pid0"  -> [layout |-> "mjs", seed |-> <<0, 23>>, f |-> F_pid0, how |-> "ok"]
    [] k = "out"   -> [layout |-> "mjs", seed |-> <<40000, 0>>, f |-> F_out, how |-> "ok"]
    [] k = "badsum" -> [layout |-> "mjs", seed |-> <<0, 10>>, f |-> F_plain, how |-> "chk"]

KindBytes(k) ==
  CASE k = "zero"  -> Zeros(SLOT_SIZE)
    [] k = "speck" -> Zeros(SLOT_SIZE - 1) \o <<1>>
    [] OTHER       -> Record(KindSource(k))

(* The slots of a blob repeat a pattern of kinds, starting shift places in. *)
Patterns ==
  { <<"zero">>, <<"valid">>, <<"badsum">>,
    <<"badsum", "valid">>,
    <<"zero", "zero", "zero", "valid">>,
    <<"valid", "zero", "badsum", "rare", "out", "pid0", "speck">> }

KindAt(pat, shift, i) == pat[((i + shift) % Len(pat)) + 1]

(* Slots lo..hi-1 of the blob, one after the other *)
RECURSIVE BlobRange(_, _, _, _)
BlobRange(pat, shift, lo, hi) ==
  IF hi - lo = 1 THEN KindBytes(KindAt(pat, shift, lo))
  ELSE BlobRange(pat, shift, lo, (lo + hi) \div 2) \o BlobRange(pat, shift, (lo + hi) \div 2, hi)

BlobOf(pat, shift, n) == IF n = 0 THEN <<>> ELSE BlobRange(pat, shift, 0, n)

Blobs == { [pat |-> pt, shift |-> sh] : pt \in Patterns, sh \in 0..6 }

Offsets == { 0, 1, SLOT_SIZE, 2 * SLOT_SIZE }

FastOptions ==
  { [sampleStride |-> 1, badEarlyOut |-> 2],
    [sampleStride |-> 2, badEarlyOut |-> 30],
    [sampleStride |-> 3, badEarlyOut |-> 1],
    [sampleStride |-> 12, badEarlyOut |-> 30] }

Init ==
  /\ src \in { x \in Blobs : x.shift < Len(x.pat) }
  /\ buf = BlobOf(src.pat, src.shift, TotalSlots)
  /\ slotBuf = <<>>
  /\ op = [name |-> "none"]
  /\ ret = Null
  /\ meta = Null
  /\ cache = Null

(* Every call is a pure function of the blob and its arguments, so a run
   is one call on one blob. *)
CallScoreXYRegion ==
  \E offset \in Offsets :
    /\ op.name = "none"
    /\ op' = [name |-> "scoreXYRegion", offset |-> offset]
    /\ ret' = scoreXYRegion(buf, offset)
    /\ UNCHANGED <<slotBuf, src, buf, meta, cache>>

CallScoreXYRegionFast ==
  \E offset \in Offsets, opts \in FastOptions :
    /\ op.name = "none"
    /\ op' = [name |-> "scoreXYRegionFast", offset |-> offset, opts |-> opts]
    /\ ret' = scoreXYRegionFast(buf, offset, opts)
    /\ UNCHANGED <<slotBuf, src, buf, meta, cache>>

(* readBoxes with an override offset: findBoxRegion returns it as it is *)
CallReadBoxes ==
  \E overrideOffset \in Offsets :
    /\ op.name = "none"
    /\ op' = [name |-> "readBoxes", offset |-> overrideOffset]
    /\ ret' = readBoxesAt(buf, overrideOffset)
    /\ UNCHANGED <<slotBuf, src, buf, meta, cache>>

Next == CallScoreXYRegion \/ CallScoreXYRegionFast \/ CallReadBoxes

Spec == Init /\ [][Next]_vars

(***************************************************************************)
(* Properties of the scorers and the assembler                             *)
(***************************************************************************)
Slots == 0..(TotalSlots - 1)

InRange(off, i) == off + ((i + 1) * SLOT_SIZE) <= Len(buf)
SliceAt(off, i) == subarray(buf, off + (i * SLOT_SIZE), off + ((i + 1) * SLOT_SIZE))
AllZero(off, i) == \A j \in 1..SLOT_SIZE : buf[off + (i * SLOT_SIZE) + j] = 0
Dec(off, i) == decodePK6(SliceAt(off, i))

(* The rule of a present slot, on the decoded record of slot i *)
PresentRule(d) ==
  d.checksumOK = TRUE /\ d.species \in 1..MAX_SPECIES /\ d.pid # <<0, 0>>

Present(off, i) == InRange(off, i) /\ ~AllZero(off, i) /\ PresentRule(Dec(off, i))

(* Slots of the set S, all in range and nonzero, by what they decode to *)
SumOk(off, S) ==
  { i \in S : InRange(off, i) /\ ~AllZero(off, i) /\ Dec(off, i).checksumOK }
SumFail(off, S) ==
  { i \in S : InRange(off, i) /\ ~AllZero(off, i) /\ ~Dec(off, i).checksumOK }
Plausible(off, S) == { i \in SumOk(off, S) : Dec(off, i).species \in 1..MAX_SPECIES }
Rare(off, S) == { i \in SumOk(off, S) : Dec(off, i).shiny }
OutOfRange(off) == { i \in Slots : ~InRange(off, i) }

SeenSet(r) == { r.seen[k] : k \in 1..Len(r.seen) }

SlotIndex(bx, s) == ((bx - 1) * SLOTS_PER_BOX) + (s - 1)

(* C6: a slot the assembler reports as present has a decoded record with
   checksumOK = TRUE, an identity code in 1..721 and a nonzero personality
   value; a slot that passes the checksum and fails one of the other two is
   not reported as present. *)
C6_PresentOnlyIfPlausible ==
  op.name = "readBoxes" =>
    \A bx \in 1..Len(ret.boxes) : \A s \in 1..SLOTS_PER_BOX :
      ret.boxes[bx].mons[s].empty = FALSE => Present(op.offset, SlotIndex(bx, s))

(* Box 1 of a blob that starts rare, out-of-range, pid 0: the first slot is
   present, the checksum-passing second one is not. *)
C6_Witness ==
  /\ op.name = "readBoxes" /\ op.offset = 0
  /\ Len(src.pat) = 7 /\ src.shift = 3
  /\ ret.boxes[1].mons[1].empty = FALSE
  /\ ret.boxes[1].mons[1].species = MAX_SPECIES
  /\ ret.boxes[1].mons[2].empty = TRUE
  /\ Dec(0, 1).checksumOK = TRUE

(* C7 as stated: scorer and assembler classify a slot as Empty if and only
   if its 232 bytes are all zero. *)
C7_EmptyIffAllZero ==
  /\ op.name = "scoreXYRegion" =>
       ret.zeros = Cardinality({ i \in Slots : InRange(op.offset, i) /\ AllZero(op.offset, i) })
  /\ op.name = "readBoxes" =>
       \A bx \in 1..Len(ret.boxes) : \A s \in 1..SLOTS_PER_BOX :
         ret.boxes[bx].mons[s].empty =
           (InRange(op.offset, SlotIndex(bx, s)) /\ AllZero(op.offset, SlotIndex(bx, s)))

(* C7 amended: the scorer counts as empty exactly the slots in range whose
   232 bytes are all zero, and no such slot as valid or invalid; the
   assembler reports every all-zero slot as empty, and besides these
   exactly the slots out of range and the nonzero slots that fail the
   present rule. *)
C7_EmptyInScorerAndAssembler ==
  /\ op.name = "scoreXYRegion" =>
       /\ ret.zeros = Cardinality({ i \in Slots : InRange(op.offset, i) /\ AllZero(op.offset, i) })
       /\ ret.ok + ret.bad =
            Cardinality({ i \in Slots : InRange(op.offset, i) /\ ~AllZero(op.offset, i) })
              + Cardinality(OutOfRange(op.offset))
  /\ op.name = "readBoxes" =>
       \A bx \in 1..Len(ret.boxes) : \A s \in 1..SLOTS_PER_BOX :
         ret.boxes[bx].mons[s].empty = ~Present(op.offset, SlotIndex(bx, s))

(* A grid with a present slot, an all-zero slot reported empty and a
   nonzero slot with a failing checksum reported empty too. *)
C7_Witness ==
  /\ op.name = "readBoxes" /\ op.offset = 0
  /\ Len(src.pat) = 7 /\ src.shift = 0
  /\ ret.boxes[1].mons[1].empty = FALSE
  /\ ret.boxes[1].mons[2].empty = TRUE /\ AllZero(0, 1)
  /\ ret.boxes[1].mons[3].empty = TRUE /\ ~AllZero(0, 2)

(* C8: in the full scorer, the fast scorer and the assembler every decode
   of a slot comes right after the all-zero test of that slot, and no slot
   whose 232 bytes are all zero is decoded. *)
C8_ZeroTestBeforeDecode ==
  op.name \in {"scoreXYRegion", "scoreXYRegionFast", "readBoxes"} =>
    \A k \in 1..Len(ret.trace) :
      ret.trace[k][1] = "decode" =>
        /\ k > 1
        /\ ret.trace[k - 1] = <<"isAllZero", ret.trace[k][2]>>
        /\ ~AllZero(op.offset, ret.trace[k][2])

(* A scan that tested an all-zero slot without decoding it and decoded a
   nonzero one. *)
C8_Witness ==
  /\ op.name = "scoreXYRegionFast" /\ op.offset = 0 /\ op.opts.sampleStride = 1
  /\ Len(src.pat) = 7 /\ src.shift = 0
  /\ SubSeq(ret.trace, 1, 4) =
       << <<"isAllZero", 0>>, <<"decode", 0>>, <<"isAllZero", 1>>, <<"isAllZero", 2>> >>

(* C9 as stated: both scores are 2*valid + plausible + 0.25*rare
   - 0.5*invalid over the slots examined (here times four). *)
C9_SameFormulaBoth ==
  /\ op.name = "scoreXYRegion" =>
       ret.score4 = (8 * ret.ok) + (4 * ret.plausibleSpecies) + ret.shinyCount - (2 * ret.bad)
  /\ op.name = "scoreXYRegionFast" =>
       ret.score4 = (8 * ret.ok) + (4 * ret.plausibleSpecies)
                      + Cardinality(Rare(op.offset, SeenSet(ret))) - (2 * ret.bad)

(* C9 amended: the full score is 2*valid + plausible + 0.25*rare
   - 0.5*invalid; the fast score is 2*valid + plausible - 0.5*invalid, with
   no term for rare slots.  The counts are those of the slots examined. *)
C9_ScoreFormula ==
  /\ op.name = "scoreXYRegion" =>
       ret.score4 = (8 * Cardinality(SumOk(op.offset, Slots)))
                      + (4 * Cardinality(Plausible(op.offset, Slots)))
                      + Cardinality(Rare(op.offset, Slots))
                      - (2 * (Cardinality(SumFail(op.offset, Slots))
                                + Cardinality(OutOfRange(op.offset))))
  /\ op.name = "scoreXYRegionFast" =>
       ret.score4 = (8 * Cardinality(SumOk(op.offset, SeenSet(ret))))
                      + (4 * Cardinality(Plausible(op.offset, SeenSet(ret))))
                      - (2 * ret.bad)

(* A fast scan that sampled a rare slot and scored 2*4 + 3 - 0.5*2 = 10,
   with nothing added for it. *)
C9_Witness ==
  /\ op.name = "scoreXYRegionFast" /\ op.offset = 0 /\ op.opts.sampleStride = 1
  /\ Len(src.pat) = 7 /\ src.shift = 3
  /\ 0 \in Rare(0, SeenSet(ret))
  /\ ret.ok = 4 /\ ret.plausibleSpecies = 3 /\ ret.bad = 2
  /\ ret.score4 = 40

(* C10 as stated: a nonzero slot is counted valid exactly when its record
   has checksumOK and an identity code in 1..721, and invalid otherwise. *)
C10_ValidNeedsSpecies ==
  op.name = "scoreXYRegion" =>
    /\ ret.ok = Cardinality(Plausible(op.offset, Slots))
    /\ ret.bad = Cardinality({ i \in Slots : InRange(op.offset, i) /\ ~AllZero(op.offset, i) }
                               \ Plausible(op.offset, Slots))
                   + Cardinality(OutOfRange(op.offset))

(* C10 amended: a nonzero slot is counted valid exactly when its record has
   checksumOK = TRUE, whatever its identity code, and counted plausible as
   well when the code is in 1..721; it is counted invalid exactly when the
   checksum fails.  Slots out of range add to the invalid count (each one in
   the full scorer, a flat 5 in the fast one). *)
C10_ValidIsChecksum ==
  /\ op.name = "scoreXYRegion" =>
       /\ ret.ok = Cardinality(SumOk(op.offset, Slots))
       /\ ret.plausibleSpecies = Cardinality(Plausible(op.offset, Slots))
       /\ ret.bad = Cardinality(SumFail(op.offset, Slots))
                      + Cardinality(OutOfRange(op.offset))
  /\ op.name = "scoreXYRegionFast" =>
       /\ ret.ok = Cardinality(SumOk(op.offset, SeenSet(ret)))
       /\ ret.plausibleSpecies = Cardinality(Plausible(op.offset, SeenSet(ret)))
       /\ ret.bad - Cardinality(SumFail(op.offset, SeenSet(ret))) \in {0, FAST_OOB_PENALTY}

(* A region whose checksum-passing slot with identity code 722 is counted
   valid and not plausible. *)
C10_Witness ==
  /\ op.name = "scoreXYRegion" /\ op.offset = 0
  /\ Len(src.pat) = 7 /\ src.shift = 4
  /\ Dec(0, 0).checksumOK = TRUE /\ Dec(0, 0).species = MAX_SPECIES + 1
  /\ ret.ok > ret.plausibleSpecies /\ ret.bad > 0 /\ ret.zeros > 0

(***************************************************************************)
(* Region locator (gen6_xy.mjs)                                            *)
(*                                                                         *)
(* The entries of the candidate lists are flat records: the offset and     *)
(* the counters of the score ({ offset, ...r }, { offset, coarse: r } and  *)
(* { offset, full } of the program).  Array.prototype.sort is stable       *)
(* (ECMAScript 2019; the modules use ?. and ??), so entries that the       *)
(* comparator holds equal keep the order in which they were pushed.        *)
(***************************************************************************)
AUTOPICK_SKEW == 512
AUTOPICK_WINDOW == 16384
AUTOPICK_STRIDE == 128
AUTOPICK_SAMPLE == 12
AUTOPICK_SHORTLIST == 15
AUTOPICK_TOP == 10
BAD_EARLY_OUT == 30
SCAN_STEP == 256
SCAN_SAMPLE == 10
SCAN_MIN_OK == 8
SCAN_MIN_SCORE == 8
SEED_OFFSET == 140800
SEED_MIN_OK == 6
SEED_MIN_SCORE == 6
MAX_CANDIDATES == 25

FastEntry(off, r) ==
  [offset |-> off, score4 |-> r.score4, ok |-> r.ok, bad |-> r.bad,
   plausibleSpecies |-> r.plausibleSpecies]

FullEntry(off, r) ==
  [offset |-> off, score4 |-> r.score4, ok |-> r.ok, zeros |-> r.zeros, bad |-> r.bad,
   plausibleSpecies |-> r.plausibleSpecies, shinyCount |-> r.shinyCount]

(* list.slice(0, n) *)
Slice(list, n) == SubSeq(list, 1, IF Len(list) < n THEN Len(list) ELSE n)

Highest(S) == CHOOSE x \in S : \A y \in S : y <= x
Lowest(S) == CHOOSE x \in S : \A y \in S : x <= y
Scores(list) == { list[k].score4 : k \in 1..Len(list) }
Bads(list) == { list[k].bad : k \in 1..Len(list) }
(* The entries of one score in an order that depends on whether a call was
   made before: first to last on the first call, last to first after it. *)
Reversed(list) == Bytes([k \in 1..Len(list) |-> list[(Len(list) - k) + 1]], Len(list))

WithScore_flip(list, v) ==
  IF op.name = "none"
  THEN SelectSeq(list, LAMBDA e : e.score4 = v)
  ELSE Reversed(SelectSeq(list, LAMBDA e : e.score4 = v))

WithScore(list, v) == SelectSeq(list, LAMBDA e : e.score4 = v)
WithBad(list, v) == SelectSeq(list, LAMBDA e : e.bad = v)

(* sort((a, b) => b.score - a.score): the entries of each score, highest
   score first, each group in the order of the list *)
RECURSIVE ByScoreDown(_, _)
ByScoreDown(list, scores) ==
  IF scores = {} THEN <<>>
  ELSE WithScore(list, Highest(scores)) \o ByScoreDown(list, scores \ {Highest(scores)})

SortByScore(list) == ByScoreDown(list, Scores(list))

RECURSIVE ByBadUp(_, _)
ByBadUp(list, bads) ==
  IF bads = {} THEN <<>>
  ELSE WithBad(list, Lowest(bads)) \o ByBadUp(list, bads \ {Lowest(bads)})

SortByBad(list) == ByBadUp(list, Bads(list))

(* sort((a, b) => b.score - a.score || a.bad - b.bad) *)
RECURSIVE ByScoreThenBad(_, _)
ByScoreThenBad(list, scores) ==
  IF scores = {} THEN <<>>
  ELSE SortByBad(WithScore(list, Highest(scores)))
         \o ByScoreThenBad(list, scores \ {Highest(scores)})

SortByScoreThenBad(list) == ByScoreThenBad(list, Scores(list))

(* for (let d = -0x4000; d <= 0x4000; d += 0x80) off = h + d *)
Sweep(h) ==
  Bytes([k \in 1..(((2 * AUTOPICK_WINDOW) \div AUTOPICK_STRIDE) + 1) |->
           (h - AUTOPICK_WINDOW) + ((k - 1) * AUTOPICK_STRIDE)],
        ((2 * AUTOPICK_WINDOW) \div AUTOPICK_STRIDE) + 1)

(* The sweeps of the three bases, one after the other *)
Sweeps(base) == Sweep(base) \o Sweep(base + AUTOPICK_SKEW) \o Sweep(base - AUTOPICK_SKEW)

(* The fast score of every offset of a list, in the order of the list *)
FastScores(b, offs, opts) ==
  Bytes([k \in 1..Len(offs) |-> FastEntry(offs[k], scoreXYRegionFast(b, offs[k], opts))],
        Len(offs))

(* if (off < 0 || off >= buf.length) continue; *)
Coarse(b, hint) ==
  FastScores(b, SelectSeq(Sweeps(hint), LAMBDA off : off >= 0 /\ off < Len(b)),
             [sampleStride |-> AUTOPICK_SAMPLE, badEarlyOut |-> BAD_EARLY_OUT])

Shortlist(coarse) == Slice(SortByScore(coarse), AUTOPICK_SHORTLIST)

(* The full scores of the shortlist, left in the order of the shortlist. *)
Refined_unsorted(b, shortlist) ==
  Bytes([k \in 1..Len(shortlist) |->
           FullEntry(shortlist[k].offset, scoreXYRegion(b, shortlist[k].offset))],
        Len(shortlist))

Refined(b, shortlist) ==
  SortByScoreThenBad(
    Bytes([k \in 1..Len(shortlist) |->
             FullEntry(shortlist[k].offset, scoreXYRegion(b, shortlist[k].offset))],
          Len(shortlist)))

(* return { best, top }; shortlist and refined are the lists the function
   built on the way *)
AutoPicked(shortlist, refined) ==
  [best |-> IF refined = <<>> THEN Null ELSE refined[1],
   top |-> Slice(refined, AUTOPICK_TOP),
   shortlist |-> shortlist,
   refined |-> refined]

AutoPickFrom(b, shortlist) == AutoPicked(shortlist, Refined(b, shortlist))

xyAutoPickOffsetFast(b, hint) == AutoPickFrom(b, Shortlist(Coarse(b, hint)))

(* Math.max(0, buf.length - SLOT_SIZE * BOXES * SLOTS_PER_BOX) *)
ScanMax(b) ==
  IF Len(b) - (SLOT_SIZE * BOXES * SLOTS_PER_BOX) > 0
  THEN Len(b) - (SLOT_SIZE * BOXES * SLOTS_PER_BOX)
  ELSE 0

(* for (let off = 0; off <= max; off += step) *)
ScanOffsets(max) ==
  Bytes([k \in 1..((max \div SCAN_STEP) + 1) |-> (k - 1) * SCAN_STEP], (max \div SCAN_STEP) + 1)

(* Every scored offset pushed, whatever its score. *)
Cleared_any(list, minOk, minScore) == list

(* if (r.ok >= minOk && r.score > minScore) results.push(...) *)
Cleared(list, minOk, minScore) ==
  SelectSeq(list, LAMBDA r : r.ok >= minOk /\ r.score4 > 4 * minScore)

scanCandidates(b) ==
  Slice(SortByScoreThenBad(
          Cleared(FastScores(b, ScanOffsets(ScanMax(b)),
                             [sampleStride |-> SCAN_SAMPLE, badEarlyOut |-> BAD_EARLY_OUT]),
                  SCAN_MIN_OK, SCAN_MIN_SCORE)),
        MAX_CANDIDATES)

(* The sweeps around 0x22600 when the scan found nothing: if (off < 0) continue; *)
SeedCandidates(b) ==
  Slice(SortByScoreThenBad(
          Cleared(FastScores(b, SelectSeq(Sweeps(SEED_OFFSET), LAMBDA off : off >= 0),
                             [sampleStride |-> AUTOPICK_SAMPLE, badEarlyOut |-> BAD_EARLY_OUT]),
                  SEED_MIN_OK, SEED_MIN_SCORE)),
        MAX_CANDIDATES)

(* if (!cands.length) { ... } *)
Candidates(b, cands) == IF cands # <<>> THEN cands ELSE SeedCandidates(b)

(* const best = cands[0] || null; return { offset, debug: cands } *)
Found(cands) ==
  [offset |-> IF cands = <<>> THEN NoOffset ELSE cands[1].offset, debug |-> cands]

(* overrideOffset: an integer, or NoOffset for undefined *)
findBoxRegion(b, overrideOffset) ==
  IF overrideOffset >= 0
  THEN [offset |-> overrideOffset,
        debug |-> << [offset |-> overrideOffset, note |-> "override"] >>]
  ELSE Found(Candidates(b, scanCandidates(b)))

readBoxes(b, overrideOffset) == readBoxesAt(b, findBoxRegion(b, overrideOffset).offset)

(***************************************************************************)
(* Save blobs for the locator: zero bytes with runs of records.  A run is  *)
(* n records of one kind, one after the other from byte offset at.  The    *)
(* blobs are a region and a little more long, not the 415,232 bytes of a   *)
(* save: "one" is the blob with a single record, the record and the hint   *)
(* at 0x3000 instead of 0x22600, with the whole sweep below the hint       *)
(* inside the blob as it is there.                                         *)
(***************************************************************************)
Region == SLOT_SIZE * TotalSlots

KindRecords ==
  [valid |-> KindBytes("valid"), rare |-> KindBytes("rare"), pid0 |-> KindBytes("pid0"),
   out |-> KindBytes("out"), badsum |-> KindBytes("badsum"), speck |-> KindBytes("speck")]

RunsAt(runs, p) ==
  { r \in 1..Len(runs) : runs[r].at <= p /\ p < runs[r].at + (runs[r].n * SLOT_SIZE) }

ByteOfRun(run, p) == KindRecords[run.kind][((p - run.at) % SLOT_SIZE) + 1]

ByteOfRuns(runs, hit, p) == IF hit = {} THEN 0 ELSE ByteOfRun(runs[Lowest(hit)], p)

RunBlob(len, runs) ==
  Bytes([p \in 1..len |-> ByteOfRuns(runs, RunsAt(runs, p - 1), p - 1)], len)

(* One record of a kind at every place of a sequence of byte offsets *)
RunsOf(places, kind) == [k \in 1..Len(places) |-> [at |-> places[k], n |-> 1, kind |-> kind]]

(* The places of the slots that a fast scan of the region at offset off
   samples with the stride given *)
Sampled(off, stride) ==
  Bytes([k \in 1..(((TotalSlots - 1) \div stride) + 1) |-> off + ((k - 1) * stride * SLOT_SIZE)],
        ((TotalSlots - 1) \div stride) + 1)

LocatorBlobs ==
  { [name |-> "zero", len |-> Region + 1024, runs |-> <<>>, hints |-> {0, 512}],
    [name |-> "one", len |-> 12288 + Region + 512,
     runs |-> << [at |-> 12288, n |-> 1, kind |-> "valid"] >>, hints |-> {12288}],
    [name |-> "grid", len |-> 256 + Region + 768,
     runs |-> << [at |-> 256, n |-> TotalSlots, kind |-> "valid"] >>, hints |-> {0, 256}],
    [name |-> "three", len |-> Region + 1024,
     runs |-> RunsOf(Sampled(0, SCAN_SAMPLE), "out") \o RunsOf(Sampled(256, SCAN_SAMPLE), "valid")
                \o RunsOf(Sampled(512, SCAN_SAMPLE), "rare"),
     hints |-> {0}],
    [name |-> "tail", len |-> Region + 1024,
     runs |-> << [at |-> 0, n |-> 1, kind |-> "valid"],
                 [at |-> 1152, n |-> 7, kind |-> "valid"],
                 [at |-> AUTOPICK_SAMPLE * SLOT_SIZE, n |-> 1, kind |-> "valid"] >>,
     hints |-> {0}] }

InitLocate ==
  /\ src \in LocatorBlobs
  /\ buf = RunBlob(src.len, src.runs)
  /\ slotBuf = <<>>
  /\ op = [name |-> "none"]
  /\ ret = Null
  /\ meta = Null
  /\ cache = Null

(* Locate without a hint *)
CallFindBoxRegion ==
  /\ op.name = "none"
  /\ op' = [name |-> "findBoxRegion", again |-> FALSE, first |-> Null]
  /\ ret' = findBoxRegion(buf, NoOffset)
  /\ UNCHANGED <<slotBuf, src, buf, meta, cache>>

CallXyAutoPickOffsetFast ==
  \E hint \in src.hints :
    /\ op.name = "none"
    /\ op' = [name |-> "xyAutoPickOffsetFast", hint |-> hint, again |-> FALSE, first |-> Null]
    /\ ret' = xyAutoPickOffsetFast(buf, hint)
    /\ UNCHANGED <<slotBuf, src, buf, meta, cache>>

(* The same call once more, on the same blob; first: what the call
   returned the first time *)
CallAgain ==
  /\ op.name \in {"findBoxRegion", "xyAutoPickOffsetFast"}
  /\ op.again = FALSE
  /\ op' = [op EXCEPT !.again = TRUE, !.first = ret]
  /\ ret' = IF op.name = "findBoxRegion"
            THEN findBoxRegion(buf, NoOffset)
            ELSE xyAutoPickOffsetFast(buf, op.hint)
  /\ UNCHANGED <<slotBuf, src, buf, meta, cache>>

NextLocate ==
  \/ CallScoreXYRegion
  \/ CallScoreXYRegionFast
  \/ CallFindBoxRegion
  \/ CallXyAutoPickOffsetFast
  \/ CallAgain

SpecLocate == InitLocate /\ [][NextLocate]_vars

(***************************************************************************)
(* A region scored, one of its empty slots filled, and scored again        *)
(***************************************************************************)
FillSlots == 0..3

(* The blob with the slot i of the region at offset replaced by a record *)
FilledWith(b, offset, i, rec) ==
  SubSeq(b, 1, offset + (i * SLOT_SIZE)) \o rec
    \o SubSeq(b, offset + ((i + 1) * SLOT_SIZE) + 1, Len(b))

(* A new save that differs from the one just scored in one slot, all zero
   before and now a valid record with a plausible identity code, not rare;
   the region at the same offset is scored again. *)
RescoreFilled ==
  \E i \in FillSlots :
    /\ op.name = "scoreXYRegion"
    /\ "filled" \notin DOMAIN op
    /\ InRange(op.offset, i)
    /\ AllZero(op.offset, i)
    /\ buf' = FilledWith(buf, op.offset, i, KindBytes("valid"))
    /\ op' = [name |-> "scoreXYRegion", offset |-> op.offset, filled |-> i, before |-> ret]
    /\ ret' = scoreXYRegion(buf', op.offset)
    /\ UNCHANGED <<slotBuf, src, meta, cache>>

NextFill == CallScoreXYRegion \/ RescoreFilled

SpecFill == Init /\ [][NextFill]_vars

(* C11 as stated: turning one empty slot of a region into a valid,
   plausible, non-rare slot, every other slot unchanged, raises the full
   score by exactly 2.0 (8 in quarters). *)
C11_RaisesByTwo ==
  (op.name = "scoreXYRegion" /\ "filled" \in DOMAIN op) =>
    ret.score4 = op.before.score4 + 8

(* C11 amended: it raises the full score by exactly 3.0: one more valid
   slot (2.0) and one more plausible identity code (1.0), one empty slot
   less, and nothing else changed. *)
C11_RaisesByThree ==
  (op.name = "scoreXYRegion" /\ "filled" \in DOMAIN op) =>
    /\ ret.score4 = op.before.score4 + 12
    /\ ret.ok = op.before.ok + 1
    /\ ret.plausibleSpecies = op.before.plausibleSpecies + 1
    /\ ret.zeros = op.before.zeros - 1
    /\ ret.bad = op.before.bad
    /\ ret.shinyCount = op.before.shinyCount

(* A region with valid, empty and invalid slots whose empty slot 1 was
   filled. *)
C11_Witness ==
  /\ op.name = "scoreXYRegion" /\ "filled" \in DOMAIN op
  /\ op.filled = 1 /\ op.offset = 0
  /\ op.before.ok > 0 /\ op.before.bad > 0
  /\ Dec(0, 1).checksumOK /\ Dec(0, 1).species \in 1..MAX_SPECIES /\ ~Dec(0, 1).shiny

(***************************************************************************)
(* Properties of the locator                                               *)
(***************************************************************************)
(* The region at offset off runs past the end of the blob *)
PastEnd(off) == off + Region > Len(buf)

NoHigher(list, i, j) ==
  (PastEnd(list[i].offset) /\ ~PastEnd(list[j].offset) /\ list[j].ok >= 1)
    => list[i].score4 <= list[j].score4

(* C12: among the candidates of a call, one whose region runs past the end
   of the blob has a score no higher than any candidate whose region lies
   inside the blob and has at least one valid slot; for the full scores of
   the refined list and for the fast scores of the shortlist. *)
C12_PastEndNeverHigher ==
  op.name = "xyAutoPickOffsetFast" =>
    /\ \A i, j \in 1..Len(ret.refined) : NoHigher(ret.refined, i, j)
    /\ \A i, j \in 1..Len(ret.shortlist) : NoHigher(ret.shortlist, i, j)

(* C13: when no candidate clears a threshold the locator returns no offset:
   locate without hint when its candidate list is empty, autopick with a
   hint when no candidate it scored has a single valid slot (an all-zero
   blob among these). *)
C13_NotFoundBelowThreshold ==
  /\ (op.name = "findBoxRegion" /\ ret.debug = <<>>) => ret.offset = NoOffset
  /\ (op.name = "xyAutoPickOffsetFast" /\ \A k \in 1..Len(ret.refined) : ret.refined[k].ok = 0)
       => ret.best = Null

(* C14: on the blob that is zero but for one valid record, autopick with
   the offset of the record as hint returns that offset as best, with one
   valid slot. *)
C14_BestAtHint ==
  (op.name = "xyAutoPickOffsetFast" /\ src.name = "one" /\ op.hint = src.runs[1].at) =>
    /\ ret.best # Null
    /\ ret.best.offset = op.hint
    /\ ret.best.ok = 1

(* C15: a locator call made again on the same blob with the same hint
   returns what the first call returned: the same offset and the same
   candidate lists, entry by entry, ties included. *)
C15_SameAgain ==
  (op.name \in {"findBoxRegion", "xyAutoPickOffsetFast"} /\ op.again) => ret = op.first

(* A second locate whose candidate list starts with two entries of equal
   score and equal invalid count. *)
C15_Witness ==
  /\ op.name = "findBoxRegion" /\ op.again
  /\ Len(ret.debug) >= 2
  /\ ret.debug[1].score4 = ret.debug[2].score4 /\ ret.debug[1].bad = ret.debug[2].bad
  /\ ret.debug[1].offset # ret.debug[2].offset

ScanEntry(e) ==
  /\ e.offset % SCAN_STEP = 0 /\ e.offset <= ScanMax(buf)
  /\ e = FastEntry(e.offset, scoreXYRegionFast(buf, e.offset,
                     [sampleStride |-> SCAN_SAMPLE, badEarlyOut |-> BAD_EARLY_OUT]))
  /\ e.ok >= SCAN_MIN_OK /\ e.score4 > 4 * SCAN_MIN_SCORE

SeedEntry(e) ==
  /\ e = FastEntry(e.offset, scoreXYRegionFast(buf, e.offset,
                     [sampleStride |-> AUTOPICK_SAMPLE, badEarlyOut |-> BAD_EARLY_OUT]))
  /\ e.ok >= SEED_MIN_OK /\ e.score4 > 4 * SEED_MIN_SCORE

(* Score descending, then invalid count ascending *)
Ordered(list) ==
  \A i, j \in 1..Len(list) :
    i < j => \/ list[i].score4 > list[j].score4
             \/ list[i].score4 = list[j].score4 /\ list[i].bad <= list[j].bad

(* C16: the candidate list of locate without hint holds only offsets whose
   fast score cleared the thresholds on valid count and score (8 and 8 for
   the scan of the blob, 6 and 6 for the sweeps around 0x22600 when the
   scan found nothing), ordered by score descending then invalid count
   ascending, at most 25 of them, and the chosen offset is that of the
   first entry. *)
C16_CandidateList ==
  op.name = "findBoxRegion" =>
    /\ Len(ret.debug) <= MAX_CANDIDATES
    /\ \/ \A k \in 1..Len(ret.debug) : ScanEntry(ret.debug[k])
       \/ \A k \in 1..Len(ret.debug) : SeedEntry(ret.debug[k])
    /\ Ordered(ret.debug)
    /\ ret.offset = IF ret.debug = <<>> THEN NoOffset ELSE ret.debug[1].offset

(* A list of three candidates that is not in the order of the scan: offset
   0 was scanned first and comes last. *)
C16_Witness ==
  /\ op.name = "findBoxRegion" /\ src.name = "three"
  /\ Len(ret.debug) = 3
  /\ ret.debug[3].offset = 0 /\ ret.debug[3].score4 < ret.debug[1].score4
  /\ ret.offset = ret.debug[1].offset

OffsetsOf(list) == { list[k].offset : k \in 1..Len(list) }

NotBetter(e, best) ==
  \/ e.score4 < best.score4
  \/ e.score4 = best.score4 /\ e.bad >= best.bad

(* C17: autopick re-scores at most 15 coarse candidates with the full
   scorer; best is one of them, none of them has a higher full score, nor
   the same full score with fewer invalid slots; the top list is the start
   of the refined list. *)
C17_BestOfRefined ==
  op.name = "xyAutoPickOffsetFast" =>
    /\ Len(ret.shortlist) <= AUTOPICK_SHORTLIST
    /\ Len(ret.refined) = Len(ret.shortlist)
    /\ OffsetsOf(ret.refined) = OffsetsOf(ret.shortlist)
    /\ \A k \in 1..Len(ret.refined) :
         ret.refined[k] = FullEntry(ret.refined[k].offset,
                                    scoreXYRegion(buf, ret.refined[k].offset))
    /\ ret.refined = <<>> => ret.best = Null
    /\ ret.refined # <<>> =>
         /\ \E k \in 1..Len(ret.refined) : ret.best = ret.refined[k]
         /\ \A k \in 1..Len(ret.refined) : NotBetter(ret.refined[k], ret.best)
    /\ ret.top = Slice(ret.refined, AUTOPICK_TOP)

(* A call whose best candidate was second by its coarse score. *)
C17_Witness ==
  /\ op.name = "xyAutoPickOffsetFast" /\ src.name = "tail"
  /\ Len(ret.shortlist) = AUTOPICK_SHORTLIST
  /\ ret.best.offset # ret.shortlist[1].offset
  /\ ret.shortlist[1].score4 > ret.shortlist[4].score4
  /\ ret.best.offset = ret.shortlist[4].offset

(***************************************************************************)
(* Export of one slot (api/index.js, GET /api/boxes/:id/export)            *)
(*                                                                         *)
(* The handler answers with a status: 200 and the 232 bytes of the slot,   *)
(* 204 (no content) or 400 and an error.  The save file is there (no 404); *)
(* boxOffset is meta.xy.boxOffset, NoOffset when the metadata has none.    *)
(* The limits 31 and 30 of the handler are BOXES and SLOTS_PER_BOX.        *)
(***************************************************************************)
(* Every nonzero slot passes. *)
ExportValid_any(d) == TRUE

(* const valid = d && d.checksumOK === true && ... && d.pid !== 0 *)
ExportValid(d) ==
  /\ IsRecord(d)
  /\ d.checksumOK = TRUE
  /\ d.species >= 1
  /\ d.species <= MAX_SPECIES
  /\ d.pid # <<0, 0>>

ExportBlob(blob, start) ==
  IF ~(\E j \in 1..Len(blob) : blob[j] # 0) THEN [status |-> 204]
  ELSE IF ~ExportValid(decodePK6(blob)) THEN [status |-> 204]
  ELSE [status |-> 200, body |-> blob, start |-> start]

ExportRange(b, start) ==
  IF start + SLOT_SIZE > Len(b)
  THEN [status |-> 400, error |-> "Computed slot out of range"]
  ELSE ExportBlob(subarray(b, start, start + SLOT_SIZE), start)

ExportAt(b, offset, box, slot) ==
  IF offset = NoOffset
  THEN [status |-> 400, error |-> "XY region not found; set offset or run autofix."]
  ELSE ExportRange(b, offset + ((((box - 1) * SLOTS_PER_BOX) + (slot - 1)) * SLOT_SIZE))

exportSlot(b, boxOffset, box, slot) ==
  IF ~(box >= 1 /\ box <= BOXES /\ slot >= 1 /\ slot <= SLOTS_PER_BOX)
  THEN [status |-> 400, error |-> "box must be 1..31 and slot 1..30"]
  ELSE ExportAt(b, findBoxRegion(b, boxOffset).offset, box, slot)

(***************************************************************************)
(* Save blobs for the grid: a region long, or cut short                    *)
(***************************************************************************)
GridBlobs ==
  { [name |-> "zero", len |-> Region, runs |-> <<>>],
    [name |-> "junk", len |-> Region, runs |-> << [at |-> 0, n |-> 3, kind |-> "badsum"] >>],
    [name |-> "head", len |-> Region,
     runs |-> << [at |-> 0, n |-> 1, kind |-> "valid"],
                 [at |-> (SLOTS_PER_BOX + 1) * SLOT_SIZE, n |-> 1, kind |-> "rare"],
                 [at |-> 2 * SLOTS_PER_BOX * SLOT_SIZE, n |-> 1, kind |-> "badsum"],
                 [at |-> ((2 * SLOTS_PER_BOX) + 1) * SLOT_SIZE, n |-> 1, kind |-> "out"],
                 [at |-> ((2 * SLOTS_PER_BOX) + 2) * SLOT_SIZE, n |-> 1, kind |-> "pid0"] >>],
    [name |-> "full", len |-> Region,
     runs |-> << [at |-> 0, n |-> TotalSlots, kind |-> "valid"] >>],
    [name |-> "last", len |-> Region,
     runs |-> << [at |-> (TotalSlots - 1) * SLOT_SIZE, n |-> 1, kind |-> "valid"] >>],
    [name |-> "short", len |-> ((2 * SLOTS_PER_BOX) + 3) * SLOT_SIZE,
     runs |-> << [at |-> 0, n |-> (2 * SLOTS_PER_BOX) + 3, kind |-> "valid"] >>] }

GridOffsets == { NoOffset, 0, SLOT_SIZE }
ExportBoxes == { 1, 2, 3, BOXES, BOXES + 1 }
ExportSlots == { 1, 2, 3, SLOTS_PER_BOX }

InitGrid ==
  /\ src \in GridBlobs
  /\ buf = RunBlob(src.len, src.runs)
  /\ slotBuf = <<>>
  /\ op = [name |-> "none"]
  /\ ret = Null
  /\ meta = Null
  /\ cache = Null

(* readBoxes(buf, meta.xy.boxOffset); offset: what findBoxRegion settles *)
CallReadBoxesAt ==
  \E boxOffset \in GridOffsets :
    /\ op.name = "none"
    /\ op' = [name |-> "readBoxes", boxOffset |-> boxOffset,
              offset |-> findBoxRegion(buf, boxOffset).offset]
    /\ ret' = readBoxes(buf, boxOffset)
    /\ UNCHANGED <<slotBuf, src, buf, meta, cache>>

CallExport ==
  \E boxOffset \in GridOffsets, box \in ExportBoxes, slot \in ExportSlots :
    /\ op.name = "none"
    /\ op' = [name |-> "export", boxOffset |-> boxOffset, box |-> box, slot |-> slot,
              offset |-> findBoxRegion(buf, boxOffset).offset]
    /\ ret' = exportSlot(buf, boxOffset, box, slot)
    /\ UNCHANGED <<slotBuf, src, buf, meta, cache>>

NextGrid == CallReadBoxesAt \/ CallExport

SpecGrid == InitGrid /\ [][NextGrid]_vars

(***************************************************************************)
(* Properties of the grid and of the export                                *)
(***************************************************************************)
PresentBoxes(off) ==
  { bx \in 1..BOXES : \E s \in 1..SLOTS_PER_BOX : Present(off, SlotIndex(bx, s)) }

(* C18: with an offset chosen, the grid has at least one box row, also when
   no slot is present, and its rows are the boxes up to the last box that
   holds a present slot: the rows left out are exactly the boxes after it. *)
C18_RowsUpToLastPresent ==
  (op.name = "readBoxes" /\ ret.offset # NoOffset) =>
    /\ Len(ret.boxes) >= 1
    /\ Len(ret.boxes) = IF PresentBoxes(ret.offset) = {} THEN 1
                        ELSE Highest(PresentBoxes(ret.offset))
    /\ \A bx \in 1..Len(ret.boxes) : ret.boxes[bx].id = bx

(* A grid cut to two rows: box 2 holds the last present slot, box 3 has
   nonzero slots that are not present. *)
C18_Witness ==
  /\ op.name = "readBoxes" /\ src.name = "head" /\ ret.offset = 0
  /\ Len(ret.boxes) = 2
  /\ ~AllZero(0, 2 * SLOTS_PER_BOX)
  /\ ret.boxes[2].mons[2].empty = FALSE

(* What the grid says of slot idx of the region at off: its decoded record
   if the slot is present, empty otherwise; s is the slot within its box *)
EntryOf(off, idx, s) ==
  IF Present(off, idx) THEN FilledMon(s - 1, Dec(off, idx)) ELSE EmptyMon(s - 1)

ValidPlace(box, slot) == box \in 1..BOXES /\ slot \in 1..SLOTS_PER_BOX

(* C19: the entry of the grid at box b, slot s (from 0) describes the bytes
   [O + (b * SLOTS_PER_BOX + s) * 232, + 232) of the blob, in a grid with
   rows left out as in a whole one, and the export of (box b + 1, slot
   s + 1) sends these same bytes. *)
C19_ExactMapping ==
  /\ (op.name = "readBoxes" /\ ret.offset # NoOffset) =>
       \A bx \in 1..Len(ret.boxes) : \A s \in 1..SLOTS_PER_BOX :
         ret.boxes[bx].mons[s] = EntryOf(ret.offset, SlotIndex(bx, s), s)
  /\ (op.name = "export" /\ ret.status = 200) =>
       /\ ret.start = op.offset + (SlotIndex(op.box, op.slot) * SLOT_SIZE)
       /\ ret.body = SliceAt(op.offset, SlotIndex(op.box, op.slot))
       /\ readBoxes(buf, op.boxOffset).boxes[op.box].mons[op.slot]
            = FilledMon(op.slot - 1, decodePK6(ret.body))

(* The export of box 2, slot 2 of a grid cut to two rows. *)
C19_Witness ==
  /\ op.name = "export" /\ src.name = "head" /\ op.offset = 0
  /\ op.box = 2 /\ op.slot = 2
  /\ ret.status = 200
  /\ ret.start = (SLOTS_PER_BOX + 1) * SLOT_SIZE
  /\ decodePK6(ret.body).species = MAX_SPECIES

(* How the assembler classifies the slot of a place, at the same offset *)
AssemblerEmpty(off, box, slot) == BoxSlot(buf, off, box - 1, slot - 1).mon.empty

(* C20: for a place of the grid and a chosen offset, the export answers
   "out of range" when the slot ends past the blob, "no content" when the
   assembler classifies the slot as empty (all zero, or failing the rule of
   a present slot), and in neither case sends the 232 bytes. *)
C20_NoContentWhenEmpty ==
  (op.name = "export" /\ ValidPlace(op.box, op.slot) /\ op.offset # NoOffset) =>
    /\ ~InRange(op.offset, SlotIndex(op.box, op.slot)) =>
         /\ ret.status = 400
         /\ ret.error = "Computed slot out of range"
    /\ (InRange(op.offset, SlotIndex(op.box, op.slot))
          /\ AssemblerEmpty(op.offset, op.box, op.slot)) => ret.status = 204
    /\ (~InRange(op.offset, SlotIndex(op.box, op.slot))
          \/ AssemblerEmpty(op.offset, op.box, op.slot)) => "body" \notin DOMAIN ret

(* The export of a nonzero slot whose checksum fails: no content. *)
C20_Witness ==
  /\ op.name = "export" /\ src.name = "head" /\ op.offset = 0
  /\ op.box = 3 /\ op.slot = 1
  /\ ~AllZero(0, 2 * SLOTS_PER_BOX)
  /\ ret.status = 204

(***************************************************************************)
(* What the core writes (gen6_xy.mjs)                                      *)
(*                                                                         *)
(* A Buffer is a view of memory: buf.subarray(start, end) shares the bytes *)
(* of buf.  A view is [mem, start, len]; mem is "blob" for the save blob   *)
(* and a name of its own for a buffer a call allocates.  The only writes   *)
(* of the module are out.writeUInt16LE (decrypt224) and blocks[..].copy    *)
(* (unshuffleBlocks); *Stores is the blob as these writes leave it.        *)
(***************************************************************************)
SlotView(start) == [mem |-> "blob", start |-> start, len |-> SLOT_SIZE]

SubView(v, start, end) == [mem |-> v.mem, start |-> v.start + start, len |-> end - start]

(* The blob after bytes are written from the start of a view *)
Stored(b, view, bytes) == IF view.mem = "blob" THEN Overlay(b, view.start, bytes) ELSE b

(* The words written back to the view that was read. *)
decrypt224_out_inPlace(enc224) == enc224

(* const out = Buffer.allocUnsafe(224); *)
decrypt224_out(enc224) == [mem |-> "decrypt224.out", start |-> 0, len |-> PAYLOAD]

unshuffleBlocks_out(decrypted224) == [mem |-> "unshuffleBlocks.out", start |-> 0, len |-> PAYLOAD]

decrypt224Stores(b, enc224, dec) == Stored(b, decrypt224_out(enc224), dec)

unshuffleBlocksStores(b, decrypted224, data) == Stored(b, unshuffleBlocks_out(decrypted224), data)

decodeSliceStores(b, slotView, dec, ec) ==
  unshuffleBlocksStores(decrypt224Stores(b, SubView(slotView, 8, 8 + PAYLOAD), dec),
                        decrypt224_out(SubView(slotView, 8, 8 + PAYLOAD)),
                        unshuffleBlocks(dec, ec))

decodeBodyStores(b, slotView, slice) ==
  decodeSliceStores(b, slotView, decrypt224(PayloadOf(slice), readUInt32LE(slice, 0)),
                    readUInt32LE(slice, 0))

(* decodePK6(slotBuf), slotBuf a view of the blob *)
decodePK6Stores(b, slotView) ==
  IF slotView.len < SLOT_SIZE THEN b
  ELSE decodeBodyStores(b, slotView, subarray(b, slotView.start, slotView.start + SLOT_SIZE))

(* One turn of a scorer or of the assembler at the slot that starts at
   start: out of range and all-zero slots are not decoded *)
SlotStores(b, start) ==
  IF start + SLOT_SIZE > Len(b) THEN b
  ELSE IF isAllZero(subarray(b, start, start + SLOT_SIZE)) THEN b
  ELSE decodePK6Stores(b, SlotView(start))

(* The turns lo..hi-1 of a loop over the slots of the region at offset,
   every stride-th slot.  A scorer that leaves its loop early decodes fewer
   slots than these. *)
RECURSIVE TurnsStores(_, _, _, _, _)
RECURSIVE TurnsRest(_, _, _, _, _)
TurnsRest(c, offset, stride, lo, hi) ==
  IF Len(c) = 0 THEN c ELSE TurnsStores(c, offset, stride, lo, hi)

TurnsStores(b, offset, stride, lo, hi) ==
  IF hi <= lo THEN b
  ELSE IF hi = lo + 1 THEN SlotStores(b, offset + (lo * stride * SLOT_SIZE))
  ELSE TurnsRest(TurnsStores(b, offset, stride, lo, (lo + hi) \div 2),
                 offset, stride, (lo + hi) \div 2, hi)

RegionStores(b, offset, stride) ==
  TurnsStores(b, offset, stride, 0, (TotalSlots + stride - 1) \div stride)

(* The regions at the offsets offs[lo+1..hi], one after the other *)
RECURSIVE RegionsStores(_, _, _, _, _)
RECURSIVE RegionsRest(_, _, _, _, _)
RegionsRest(c, offs, stride, lo, hi) ==
  IF Len(c) = 0 THEN c ELSE RegionsStores(c, offs, stride, lo, hi)

RegionsStores(b, offs, stride, lo, hi) ==
  IF hi <= lo THEN b
  ELSE IF hi = lo + 1 THEN RegionStores(b, offs[hi], stride)
  ELSE RegionsRest(RegionsStores(b, offs, stride, lo, (lo + hi) \div 2),
                   offs, stride, (lo + hi) \div 2, hi)

OffsetsList(list) == Bytes([k \in 1..Len(list) |-> list[k].offset], Len(list))

AllRegionsStores(b, offs, stride) == RegionsStores(b, offs, stride, 0, Len(offs))

(* The coarse sweep, then the full score of the shortlist *)
xyAutoPickOffsetFastStores(b, hint) ==
  AllRegionsStores(
    AllRegionsStores(b, SelectSeq(Sweeps(hint), LAMBDA off : off >= 0 /\ off < Len(b)),
                     AUTOPICK_SAMPLE),
    OffsetsList(Shortlist(Coarse(b, hint))), 1)

scanCandidatesStores(b) == AllRegionsStores(b, ScanOffsets(ScanMax(b)), SCAN_SAMPLE)

SeedCandidatesStores(b) ==
  AllRegionsStores(b, SelectSeq(Sweeps(SEED_OFFSET), LAMBDA off : off >= 0), AUTOPICK_SAMPLE)

findBoxRegionStores(b, overrideOffset) ==
  IF overrideOffset >= 0 THEN b
  ELSE IF scanCandidates(b) # <<>> THEN scanCandidatesStores(b)
  ELSE SeedCandidatesStores(scanCandidatesStores(b))

readBoxesAtStores(b, off) == IF off = NoOffset THEN b ELSE RegionStores(b, off, 1)

readBoxesStores(b, overrideOffset) ==
  readBoxesAtStores(findBoxRegionStores(b, overrideOffset), findBoxRegion(b, overrideOffset).offset)

(***************************************************************************)
(* Core operations called one after the other on one blob                  *)
(***************************************************************************)
MaxCalls == 3

FrameSlots == 10

FrameBlobs ==
  { [name |-> "records", len |-> FrameSlots * SLOT_SIZE,
     runs |-> << [at |-> 0, n |-> 2, kind |-> "valid"],
                 [at |-> 2 * SLOT_SIZE, n |-> 1, kind |-> "rare"],
                 [at |-> 4 * SLOT_SIZE, n |-> 1, kind |-> "badsum"],
                 [at |-> 5 * SLOT_SIZE, n |-> 1, kind |-> "out"],
                 [at |-> 7 * SLOT_SIZE, n |-> 2, kind |-> "pid0"] >>],
    [name |-> "valid", len |-> (FrameSlots * SLOT_SIZE) + 100,
     runs |-> << [at |-> 0, n |-> FrameSlots, kind |-> "valid"] >>],
    [name |-> "junk", len |-> FrameSlots * SLOT_SIZE,
     runs |-> << [at |-> 0, n |-> FrameSlots, kind |-> "badsum"] >>],
    [name |-> "late", len |-> FrameSlots * SLOT_SIZE,
     runs |-> << [at |-> 116, n |-> 3, kind |-> "valid"],
                 [at |-> 6 * SLOT_SIZE, n |-> 1, kind |-> "speck"] >>] }

FrameStarts == { 0, 116 }

InitFrame ==
  /\ src \in FrameBlobs
  /\ buf = RunBlob(src.len, src.runs)
  /\ slotBuf = <<>>
  /\ op = [name |-> "none", calls |-> 0]
  /\ ret = Null
  /\ meta = Null
  /\ cache = Null

Called(name, arg) == [name |-> name, arg |-> arg, calls |-> op.calls + 1]

FrameDecodePK6 ==
  \E start \in FrameStarts :
    /\ op.calls < MaxCalls
    /\ op' = Called("decodePK6", start)
    /\ ret' = decodePK6(subarray(buf, start, start + SLOT_SIZE))
    /\ buf' = decodePK6Stores(buf, SlotView(start))
    /\ UNCHANGED <<slotBuf, src, meta, cache>>

FrameScoreXYRegion ==
  \E offset \in FrameStarts :
    /\ op.calls < MaxCalls
    /\ op' = Called("scoreXYRegion", offset)
    /\ ret' = scoreXYRegion(buf, offset)
    /\ buf' = RegionStores(buf, offset, 1)
    /\ UNCHANGED <<slotBuf, src, meta, cache>>

FrameScoreXYRegionFast ==
  \E offset \in FrameStarts :
    /\ op.calls < MaxCalls
    /\ op' = Called("scoreXYRegionFast", offset)
    /\ ret' = scoreXYRegionFast(buf, offset, [sampleStride |-> 2, badEarlyOut |-> BAD_EARLY_OUT])
    /\ buf' = RegionStores(buf, offset, 2)
    /\ UNCHANGED <<slotBuf, src, meta, cache>>

FrameFindBoxRegion ==
  /\ op.calls < MaxCalls
  /\ op' = Called("findBoxRegion", NoOffset)
  /\ ret' = findBoxRegion(buf, NoOffset)
  /\ buf' = findBoxRegionStores(buf, NoOffset)
  /\ UNCHANGED <<slotBuf, src, meta, cache>>

FrameXyAutoPickOffsetFast ==
  /\ op.calls < MaxCalls
  /\ op' = Called("xyAutoPickOffsetFast", 0)
  /\ ret' = xyAutoPickOffsetFast(buf, 0)
  /\ buf' = xyAutoPickOffsetFastStores(buf, 0)
  /\ UNCHANGED <<slotBuf, src, meta, cache>>

FrameReadBoxes ==
  \E overrideOffset \in { NoOffset, 0, 116 } :
    /\ op.calls < MaxCalls
    /\ op' = Called("readBoxes", overrideOffset)
    /\ ret' = readBoxes(buf, overrideOffset)
    /\ buf' = readBoxesStores(buf, overrideOffset)
    /\ UNCHANGED <<slotBuf, src, meta, cache>>

NextFrame ==
  \/ FrameDecodePK6
  \/ FrameScoreXYRegion
  \/ FrameScoreXYRegionFast
  \/ FrameFindBoxRegion
  \/ FrameXyAutoPickOffsetFast
  \/ FrameReadBoxes

SpecFrame == InitFrame /\ [][NextFrame]_vars

(* C21: no core operation writes to the blob: after any sequence of calls
   of the decoder, the scorers, the locators and the assembler, every byte
   of the blob has the value it had before the first call. *)
C21_BlobNeverWritten == buf = RunBlob(src.len, src.runs)

(* The third call on a blob, an autopick that decoded records and found a
   best offset. *)
C21_Witness ==
  /\ op.calls = MaxCalls
  /\ op.name = "xyAutoPickOffsetFast"
  /\ ret.best # Null
  /\ ret.best.ok > 0

(***************************************************************************)
(* The keystream step, called again and again on its own result            *)
(***************************************************************************)
MaxSteps == 8

StepSeeds ==
  { [name |-> "seed", seed |-> <<hi, lo>>] :
      hi \in { 0, 1, (W16 \div 2) - 1, W16 \div 2, W16 - 1 }, lo \in { 0, 1, W16 \div 2, W16 - 1 } }

InitStep ==
  /\ src \in StepSeeds
  /\ buf = <<>>
  /\ slotBuf = <<>>
  /\ op = [name |-> "none", calls |-> 0]
  /\ ret = Null
  /\ meta = Null
  /\ cache = Null

(* seed = lcrng_next(seed), as the loop of decrypt224 calls it *)
CallLcrngNext ==
  /\ op.calls < MaxSteps
  /\ op' = [name |-> "lcrng_next", calls |-> op.calls + 1,
            seed |-> IF op.calls = 0 THEN src.seed ELSE ret]
  /\ ret' = lcrng_next(IF op.calls = 0 THEN src.seed ELSE ret)
  /\ UNCHANGED <<slotBuf, src, buf, meta, cache>>

NextStep == CallLcrngNext

SpecStep == InitStep /\ [][NextStep]_vars

(* C22: for every seed the keystream step returns
   (seed * 0x41C64E6D + 0x6073) mod 2^32, a value in 0..2^32-1: the signed
   result of the 32-bit multiplication and its overflow add no error. *)
C22_StepIsLcrng ==
  (op.name = "lcrng_next") =>
    /\ ret = RefNext(op.seed)
    /\ ret[1] \in 0..(W16 - 1)
    /\ ret[2] \in 0..(W16 - 1)

(* The step from 0x00006073 to 0xE97E7B6A: the product has bit 31 set, so
   Math.imul returns a negative number. *)
C22_Witness ==
  /\ op.name = "lcrng_next"
  /\ op.seed = <<0, 24691>>
  /\ imul(op.seed, LCRNG_MUL).sign < 0
  /\ ret = <<59774, 31594>>

(***************************************************************************)
(* Records around the threshold of the rare flag                           *)
(***************************************************************************)
(* xor: the four halves xor-ed by hand.  0x1234 = 4660, 0xF0 = 240,
   0xFF = 255, 0xE0 = 224, 0x8000 = 32768, 0xFFF0 = 65520, 0x4000 = 16384 *)
RareFields ==
  { [pid |-> <<4660, 4660>>, species |-> 25, tid |-> 240, sid |-> 255, nature |-> 1, xor |-> 15],
    [pid |-> <<4660, 4660>>, species |-> 25, tid |-> 240, sid |-> 224, nature |-> 1, xor |-> 16],
    [pid |-> <<32768, 0>>, species |-> 1, tid |-> 32768, sid |-> 0, nature |-> 2, xor |-> 0],
    [pid |-> <<65535, 0>>, species |-> 721, tid |-> 0, sid |-> 65520, nature |-> 3, xor |-> 15],
    [pid |-> <<0, 16>>, species |-> 7, tid |-> 0, sid |-> 0, nature |-> 4, xor |-> 16],
    [pid |-> <<256, 0>>, species |-> 7, tid |-> 0, sid |-> 0, nature |-> 5, xor |-> 256],
    [pid |-> <<256, 256>>, species |-> 7, tid |-> 5, sid |-> 0, nature |-> 6, xor |-> 5],
    [pid |-> <<17, 0>>, species |-> 7, tid |-> 16384, sid |-> 16384, nature |-> 7, xor |-> 17] }

RareSources == [layout : {"mjs", "js"}, seed : { <<0, 0>>, <<40000, 5>>, <<65535, 65535>> }, f : RareFields, how : {"ok"}]

InitRare ==
  /\ src \in RareSources
  /\ slotBuf = Record(src)
  /\ buf = <<>>
  /\ op = [name |-> "none"]
  /\ ret = Null
  /\ meta = Null
  /\ cache = Null

NextRare == CallDecodePK6 \/ CallDecryptPk6

SpecRare == InitRare /\ [][NextRare]_vars

(* The xor of the four halves of a decoded record, bit by bit *)
HalvesXor(r) == XorBits(XorBits(r.pid[2], r.pid[1], 16), XorBits(r.tid, r.sid, 16), 16)

(* C23: the rare flag of every decoded record is true exactly when
   (low half of the personality value) xor (its high half) xor trainerID
   xor secretID, a 16-bit value, is below 16. *)
C23_RareIffXorBelow16 ==
  (op.name \in {"decodePK6", "decryptPk6"} /\ IsRecord(ret)) =>
    /\ ret.shiny = (HalvesXor(ret) < 16)
    /\ OwnDecoder => (SameFields(ret, src.f) /\ ret.shiny = (src.f.xor < 16))

(* A record one below the threshold, its personality value with a high
   half, read by the decoder it was written for. *)
C23_Witness ==
  /\ op.name = "decodePK6" /\ src.layout = "mjs"
  /\ src.f.xor = 15
  /\ ret.pid[1] = 65535
  /\ ret.shiny = TRUE

(***************************************************************************)
(* Slots past the end of the blob, and the early exit of the fast scorer   *)
(***************************************************************************)
(* The slots a fast scan with the stride visits if nothing stops it *)
SampledSlots(stride) == { i \in Slots : i % stride = 0 }

SampledMissing(off, stride) == { i \in SampledSlots(stride) : ~InRange(off, i) }

(* The slots a trace names *)
Traced(r) == { r.trace[k][2] : k \in 1..Len(r.trace) }

(* What a fast scan added to its invalid count besides the failed slots *)
FastExtra(r, off) == r.bad - Cardinality(SumFail(off, SeenSet(r)))

(* The failed slots it saw stay below the early-exit count *)
NoEarlyOut(r, off, opts) == Cardinality(SumFail(off, SeenSet(r))) < opts.badEarlyOut

(* C24 as stated: in the full and in the fast scorer the first slot past
   the end of the blob stops the scan and the invalid count is charged
   once for each missing slot, from that slot to the last. *)
C24_PenaltyPerMissingSlot ==
  /\ (op.name = "scoreXYRegion" /\ OutOfRange(op.offset) # {}) =>
       /\ ret.bad = Cardinality(SumFail(op.offset, Slots))
                      + (TotalSlots - Lowest(OutOfRange(op.offset)))
       /\ \A i \in Traced(ret) : InRange(op.offset, i)
  /\ (op.name = "scoreXYRegionFast" /\ FastExtra(ret, op.offset) > 0) =>
       FastExtra(ret, op.offset)
         = TotalSlots - Lowest(SampledMissing(op.offset, op.opts.sampleStride))

(* C24 amended: the first examined slot past the end stops the scan in
   both scorers.  The full scorer charges one invalid count for each
   missing slot; the fast scorer charges 5 invalid counts whatever the
   number of missing slots, and nothing when no sampled slot is missing or
   when it left the loop before it. *)
C24_PenaltyAtEnd ==
  /\ (op.name = "scoreXYRegion" /\ OutOfRange(op.offset) # {}) =>
       /\ ret.bad = Cardinality(SumFail(op.offset, Slots))
                      + (TotalSlots - Lowest(OutOfRange(op.offset)))
       /\ \A i \in Traced(ret) : InRange(op.offset, i)
  /\ op.name = "scoreXYRegionFast" =>
       /\ FastExtra(ret, op.offset)
            = IF NoEarlyOut(ret, op.offset, op.opts)
                 /\ SampledMissing(op.offset, op.opts.sampleStride) # {}
              THEN FAST_OOB_PENALTY ELSE 0
       /\ \A i \in SeenSet(ret) : InRange(op.offset, i)

(* A fast scan that reached a sampled slot with two slots missing, and
   charged 5. *)
C24_Witness ==
  /\ op.name = "scoreXYRegionFast" /\ op.opts.sampleStride = 2
  /\ Cardinality(OutOfRange(op.offset)) = 2
  /\ Lowest(SampledMissing(op.offset, 2)) = TotalSlots - 2
  /\ FastExtra(ret, op.offset) = FAST_OOB_PENALTY

InRangeSampled(off, stride) == { i \in SampledSlots(stride) : InRange(off, i) }

FailedUpTo(F, i) == { j \in F : j <= i }

(* The n-th failed slot of F, if F has that many *)
NthFailed(F, n) == { i \in F : Cardinality(FailedUpTo(F, i)) = n }

(* The slots of S up to the n-th failed one, all of S if there is none *)
UpToNthFailed(S, stop) == IF stop = {} THEN S ELSE { i \in S : i <= Lowest(stop) }

(* n sampled slots in a row from slot i have all failed *)
RunFrom(F, stride, n, i) == \A k \in 0..(n - 1) : (i + (k * stride)) \in F

HasRun(F, stride, n) == \E i \in F : RunFrom(F, stride, n, i)

(* C25 as stated: the fast scorer stops early only after a run of
   badEarlyOut consecutive invalid sampled slots: when no run of the
   invalid slots reaches that length it examines every sampled slot of the
   region that is in range. *)
C25_StopsOnlyAfterRun ==
  op.name = "scoreXYRegionFast" =>
    (~HasRun(SumFail(op.offset, InRangeSampled(op.offset, op.opts.sampleStride)),
             op.opts.sampleStride, op.opts.badEarlyOut)
       => SeenSet(ret) = InRangeSampled(op.offset, op.opts.sampleStride))

(* C25 amended: the fast scorer stops early as soon as the number of
   invalid sampled slots it has counted reaches badEarlyOut, whether or not
   valid or empty slots lie between them: it examines the sampled slots in
   range up to that invalid slot, and all of them if the count is never
   reached. *)
C25_StopsAtCount ==
  op.name = "scoreXYRegionFast" =>
    SeenSet(ret) = UpToNthFailed(InRangeSampled(op.offset, op.opts.sampleStride),
                     NthFailed(SumFail(op.offset, InRangeSampled(op.offset, op.opts.sampleStride)),
                               op.opts.badEarlyOut))

(* Invalid and valid slots in turn, early exit at 2: the scan stops at the
   second invalid slot, slot 2, with a valid slot between the two. *)
C25_Witness ==
  /\ op.name = "scoreXYRegionFast" /\ op.offset = 0
  /\ op.opts.sampleStride = 1 /\ op.opts.badEarlyOut = 2
  /\ src.pat = <<"badsum", "valid">> /\ src.shift = 0
  /\ SeenSet(ret) = {0, 1, 2}
  /\ ret.bad = 2 /\ ret.ok = 1

(***************************************************************************)
(* Set region offset (api/index.js, POST /api/saves/xy/region)             *)
(*                                                                         *)
(* A value of the JSON body is [t |-> "undefined"] for a missing key,      *)
(* [t |-> "null"], [t |-> "boolean", v], [t |-> "number", num] or          *)
(* [t |-> "string", chars], chars the text one character a place.  A       *)
(* JavaScript number is [nan, neg, int, frac]: not a number, or -/+ an     *)
(* integer part with a fractional part that is zero (frac = FALSE) or not. *)
(* The texts of the model have no exponent, no binary or octal prefix and  *)
(* no "Infinity".                                                          *)
(***************************************************************************)
NaN == [nan |-> TRUE, neg |-> FALSE, int |-> 0, frac |-> FALSE]

Num(neg, int, frac) == [nan |-> FALSE, neg |-> neg, int |-> int, frac |-> frac]

DigitValue == [c \in {"0", "1", "2", "9", "a", "F"} |-> CASE c = "0" -> 0 [] c = "1" -> 1 [] c = "2" -> 2 [] c = "9" -> 9 [] c = "a" -> 10 [] OTHER -> 15]

DecDigits == {"0", "1", "2", "9"}

HexDigits == DOMAIN DigitValue

AllIn(chars, S) == \A k \in 1..Len(chars) : chars[k] \in S

(* The value of a numeral, most significant digit first *)
RECURSIVE Numeral(_, _)
Numeral(chars, base) ==
  IF chars = <<>> THEN 0
  ELSE (Numeral(SubSeq(chars, 1, Len(chars) - 1), base) * base) + DigitValue[chars[Len(chars)]]

(* White space at both ends dropped *)
RECURSIVE TrimStart(_)
TrimStart(chars) ==
  IF chars # <<>> /\ chars[1] = " " THEN TrimStart(Tail(chars)) ELSE chars

RECURSIVE TrimEnd(_)
TrimEnd(chars) ==
  IF chars # <<>> /\ chars[Len(chars)] = " "
  THEN TrimEnd(SubSeq(chars, 1, Len(chars) - 1)) ELSE chars

Dots(chars) == { k \in 1..Len(chars) : chars[k] = "." }

(* digits, digits.digits, digits. or .digits *)
Unsigned(neg, ip, fp) ==
  IF AllIn(ip, DecDigits) /\ AllIn(fp, DecDigits) /\ Len(ip) + Len(fp) > 0
  THEN Num(neg, Numeral(ip, 10), \E k \in 1..Len(fp) : fp[k] # "0")
  ELSE NaN

DecimalLiteral(neg, body) ==
  IF Dots(body) = {} THEN Unsigned(neg, body, <<>>)
  ELSE Unsigned(neg, SubSeq(body, 1, Lowest(Dots(body)) - 1),
                SubSeq(body, Lowest(Dots(body)) + 1, Len(body)))

HexLiteral(digits) ==
  IF digits # <<>> /\ AllIn(digits, HexDigits) THEN Num(FALSE, Numeral(digits, 16), FALSE) ELSE NaN

(* Number(text) of a trimmed text: the empty text is 0 *)
TrimmedToNumber(t) ==
  IF t = <<>> THEN Num(FALSE, 0, FALSE)
  ELSE IF Len(t) >= 2 /\ t[1] = "0" /\ t[2] \in {"x", "X"} THEN HexLiteral(SubSeq(t, 3, Len(t)))
  ELSE IF t[1] \in {"+", "-"} THEN DecimalLiteral(t[1] = "-", Tail(t))
  ELSE DecimalLiteral(FALSE, t)

StringToNumber(chars) == TrimmedToNumber(TrimEnd(TrimStart(chars)))

(* Number(value) *)
ToNumber(v) ==
  CASE v.t = "undefined" -> NaN
    [] v.t = "null" -> Num(FALSE, 0, FALSE)
    [] v.t = "boolean" -> Num(FALSE, IF v.v THEN 1 ELSE 0, FALSE)
    [] v.t = "number" -> v.num
    [] OTHER -> StringToNumber(v.chars)

(* Number.isInteger(n) && !(n < 0); -0 is an integer and not below 0 *)
ValidOffset(n) == ~n.nan /\ ~n.frac /\ ~(n.neg /\ n.int > 0)

(* The cache file left where it is. *)
StoreOffset_keepCache(m, c, offNum) ==
  [status |-> 200, body |-> [ok |-> TRUE, boxOffset |-> offNum],
   meta |-> [m EXCEPT !.boxOffset = offNum], cache |-> c]

(* meta.xy.boxOffset = offNum; writeMeta; unlink the boxes cache *)
StoreOffset(m, c, offNum) ==
  [status |-> 200, body |-> [ok |-> TRUE, boxOffset |-> offNum],
   meta |-> [m EXCEPT !.boxOffset = offNum], cache |-> Null]

Refused(m, c, error) == [status |-> 400, body |-> [error |-> error], meta |-> m, cache |-> c]

SetOffsetNumber(m, c, offNum) ==
  IF ~ValidOffset(offNum) THEN Refused(m, c, "invalid offset") ELSE StoreOffset(m, c, offNum.int)

(* The handler for a request with an id; m, c: the metadata and the cache
   before it; the result carries them as the request leaves them *)
setXyRegion(m, c, offset) ==
  IF offset.t = "undefined" THEN Refused(m, c, "id and offset required")
  ELSE SetOffsetNumber(m, c, ToNumber(offset))

(***************************************************************************)
(* One set-region request on a save with metadata and a cache              *)
(***************************************************************************)
MaxTextLen == 3

TextChars == {"0", "1", "9", "x", "a", "-", ".", " "}

Texts == UNION { [1..n -> TextChars] : n \in 0..MaxTextLen }

OffsetValues ==
  { [t |-> "undefined"], [t |-> "null"], [t |-> "boolean", v |-> TRUE], [t |-> "boolean", v |-> FALSE] }
    \cup { [t |-> "number", num |-> Num(neg, int, frac)] : neg \in BOOLEAN, int \in {0, 1, 464}, frac \in BOOLEAN }
    \cup { [t |-> "string", chars |-> chars] : chars \in Texts }

(* meta.xy.boxOffset and meta.xyRegionOffset; NoOffset: the key is not there *)
Metas == { [boxOffset |-> o, xyRegionOffset |-> NoOffset] : o \in {NoOffset, SLOT_SIZE} }

(* A cache file written by an earlier boxes view: the payload is not read here *)
Caches == { Null, [sha256 |-> <<0, 0>>, payload |-> [boxes |-> <<>>, offsetUsed |-> SLOT_SIZE]] }

InitRegion ==
  /\ src = [name |-> "save"]
  /\ buf = <<>>
  /\ slotBuf = <<>>
  /\ op = [name |-> "none"]
  /\ ret = Null
  /\ meta \in Metas
  /\ cache \in Caches

Answered(r) == [status |-> r.status, body |-> r.body]

SetRegionDone(offset, r) ==
  /\ op' = [name |-> "setXyRegion", offset |-> offset, meta |-> meta, cache |-> cache]
  /\ ret' = Answered(r)
  /\ meta' = r.meta
  /\ cache' = r.cache
  /\ UNCHANGED <<slotBuf, src, buf>>

PostXyRegion ==
  \E offset \in OffsetValues :
    /\ op.name = "none"
    /\ SetRegionDone(offset, setXyRegion(meta, cache, offset))

NextRegion == PostXyRegion

SpecRegion == InitRegion /\ [][NextRegion]_vars

(* A text that spells a number has a digit; a number is an offset when it
   is an integer and not negative *)
HasDigit(chars) == \E k \in 1..Len(chars) : chars[k] \in HexDigits

SpellsNumber(v) ==
  \/ v.t = "number"
  \/ v.t = "string" /\ HasDigit(v.chars)

Digits(v) == v.t = "string" /\ v.chars # <<>> /\ AllIn(v.chars, DecDigits)

(* C26: a set-region request whose offset does not parse, as decimal or
   0x-prefixed hex text or as a number, to a non-negative integer is
   rejected and leaves the metadata and the boxes cache of the save as
   they were; a request with a valid offset stores exactly the parsed
   integer as the box offset of the save. *)
C26_BadOffsetRejected ==
  (op.name = "setXyRegion") =>
    /\ ~SpellsNumber(op.offset) =>
         (ret.status = 400 /\ meta = op.meta /\ cache = op.cache)
    /\ ret.status = 400 => (meta = op.meta /\ cache = op.cache)
    /\ ret.status = 200 => (meta.boxOffset >= 0 /\ meta.boxOffset = ret.body.boxOffset)
    /\ Digits(op.offset) =>
         (ret.status = 200 /\ meta.boxOffset = Numeral(op.offset.chars, 10))

(***************************************************************************)
(* Boxes view and autofix (api/index.js), and requests one after another   *)
(* on one save.  Every handler is synchronous and runs to its end before   *)
(* the next request is taken.                                              *)
(*                                                                         *)
(* The sizes of a save and the default hint 0x22600 are scaled with the    *)
(* grid: an X/Y save of the model is a region and 1024 bytes long and its  *)
(* boxes start at 512.  The file of a save never changes, so the pick of   *)
(* the file at the default hint is taken once, when the save is set up     *)
(* (src.pick), and the handlers read it there.                             *)
(***************************************************************************)
DEFAULT_HINT == 512

XY_EXPECTED_SIZES == { Region + 1024, Region + 1536 }

isLikelyXYSav(b) == Len(b) \in XY_EXPECTED_SIZES

(* crypto.createHash("sha256").update(buf): a digest of the bytes *)
sha256(b) == <<Len(b), sum16le_bytes(b)>>

(* xyReadBoxes(buf, offset), or the view of a file no parser knows *)
ViewOf(b, offset) ==
  IF isLikelyXYSav(b) THEN readBoxes(b, offset) ELSE [offset |-> NoOffset, boxes |-> <<>>]

(* { ...view, sha256, offsetUsed: offset ?? view?.offset ?? null } *)
BoxesPayload(view, sha, offset) ==
  [boxes |-> view.boxes, sha256 |-> sha,
   offsetUsed |-> IF offset # NoOffset THEN offset ELSE view.offset]

(* The offset of the view: the persisted one, or a pick made once *)
ViewOffset(b, m, pick) ==
  IF m.boxOffset = NoOffset /\ isLikelyXYSav(b) /\ pick.best # Null
  THEN pick.best.offset
  ELSE m.boxOffset

Viewed(m, sha, offset, payload) ==
  [status |-> 200, body |-> payload,
   meta |-> [m EXCEPT !.boxOffset = offset],
   cache |-> [sha256 |-> sha, payload |-> payload]]

ViewAt(b, m, sha, offset) == Viewed(m, sha, offset, BoxesPayload(ViewOf(b, offset), sha, offset))

(* if (cached && cached.sha256 === sha256 && cached.payload) return it *)
ViewOrCached(b, m, c, pick, sha) ==
  IF c # Null /\ c.sha256 = sha
  THEN [status |-> 200, body |-> c.payload, meta |-> m, cache |-> c]
  ELSE ViewAt(b, m, sha, ViewOffset(b, m, pick))

(* GET /api/boxes/:id for a save file that is there *)
getBoxes(b, m, c, pick) == ViewOrCached(b, m, c, pick, sha256(b))

(* XY.refineAround is called by the autofix handler and defined nowhere in
   the repository: the call throws, or, with a function as the spec
   describes it, returns the refined candidate *)
RefineOutcomes == { "throws", "returns" }

refineAround(best, outcome) == IF outcome = "throws" THEN Throw ELSE [offset |-> best.offset]

(* meta.xyRegionOffset = chosen.offset; writeMeta(id, meta) *)
AutofixChosen(m, c, chosen) ==
  IF chosen = Throw
  THEN [status |-> 500, body |-> [error |-> "XY.refineAround is not a function"], meta |-> m, cache |-> c]
  ELSE [status |-> 200, body |-> [ok |-> TRUE, chosen |-> chosen],
        meta |-> [m EXCEPT !.xyRegionOffset = chosen.offset], cache |-> c]

(* POST /api/saves/xy/autofix with the default hint *)
autofix(m, c, pick, outcome) ==
  IF pick.best = Null
  THEN [status |-> 200, body |-> [ok |-> FALSE, reason |-> "no-candidate"], meta |-> m, cache |-> c]
  ELSE AutofixChosen(m, c, refineAround(pick.best, outcome))

(***************************************************************************)
(* Saves and requests                                                      *)
(***************************************************************************)
MaxRequests == 3

ApiSaves ==
  { [name |-> "xy", len |-> Region + 1024,
     runs |-> << [at |-> DEFAULT_HINT, n |-> 3, kind |-> "valid"],
                 [at |-> DEFAULT_HINT + (3 * SLOT_SIZE), n |-> 1, kind |-> "rare"] >>
                \o RunsOf(Tail(Sampled(DEFAULT_HINT, AUTOPICK_SAMPLE)), "valid")],
    [name |-> "other", len |-> 10 * SLOT_SIZE,
     runs |-> << [at |-> 0, n |-> 2, kind |-> "valid"] >>] }

ApiOffsets ==
  { [t |-> "string", chars |-> <<"0">>], [t |-> "string", chars |-> <<"x">>],
    [t |-> "number", num |-> Num(FALSE, SLOT_SIZE, FALSE)] }

SavedAs(s, b) == [name |-> s.name, pick |-> xyAutoPickOffsetFast(b, DEFAULT_HINT)]

InitApi ==
  \E s \in ApiSaves :
    /\ buf = RunBlob(s.len, s.runs)
    /\ src = SavedAs(s, buf)
    /\ slotBuf = <<>>
    /\ op = [name |-> "none", n |-> 0, fix |-> NoOffset, dropped |-> Null]
    /\ ret = Null
    /\ meta = [boxOffset |-> NoOffset, xyRegionOffset |-> NoOffset]
    /\ cache = Null

(* A request answered: fix is the offset the last autofix chose, dropped
   the cache file that the last set-region request removed *)
Request(name, arg, fix, dropped, r) ==
  /\ op.n < MaxRequests
  /\ op' = [name |-> name, arg |-> arg, n |-> op.n + 1, fix |-> fix, dropped |-> dropped]
  /\ ret' = Answered(r)
  /\ meta' = r.meta
  /\ cache' = r.cache
  /\ UNCHANGED <<slotBuf, src, buf>>

ApiSetRegion ==
  \E offset \in ApiOffsets :
    Request("setXyRegion", offset, op.fix, cache, setXyRegion(meta, cache, offset))

ApiGetBoxes == Request("getBoxes", Null, op.fix, op.dropped, getBoxes(buf, meta, cache, src.pick))

Stateless(r) == [status |-> r.status, body |-> r, meta |-> meta, cache |-> cache]

ApiExport ==
  \E slot \in {1, 4} :
    Request("export", slot, op.fix, op.dropped, Stateless(exportSlot(buf, meta.boxOffset, 1, slot)))

AutofixDone(r) ==
  Request("autofix", Null, IF r.status = 200 /\ r.body.ok THEN r.body.chosen.offset ELSE NoOffset,
          op.dropped, r)

ApiAutofix == \E outcome \in RefineOutcomes : AutofixDone(autofix(meta, cache, src.pick, outcome))

NextApi == ApiSetRegion \/ ApiGetBoxes \/ ApiExport \/ ApiAutofix

SpecApi == InitApi /\ [][NextApi]_vars

(* C27: an autofix request that finds a candidate succeeds and persists the
   chosen offset, and the boxes view and the export that follow are
   assembled at that offset. *)
C27_AutofixOffsetUsed ==
  /\ (op.name = "autofix" /\ src.pick.best # Null) =>
       /\ ret.status = 200 /\ ret.body.ok
       /\ src.pick.best.offset \in {meta.boxOffset, meta.xyRegionOffset}
  /\ (op.name = "getBoxes" /\ op.fix # NoOffset) => ret.body.offsetUsed = op.fix
  /\ (op.name = "export" /\ op.fix # NoOffset /\ ret.status = 200) =>
       ret.body.start = op.fix + ((op.arg - 1) * SLOT_SIZE)

(* C28: with every handler atomic, a boxes view answered after a set-region
   request is never the cached payload of an earlier offset: the payload of
   every view carries the current file hash and the offset that is
   persisted when it is answered, and its boxes are those assembled at that
   offset. *)
C28_ViewAtPersistedOffset ==
  (op.name = "getBoxes") =>
    /\ ret.status = 200
    /\ ret.body.sha256 = sha256(buf)
    /\ meta.boxOffset # NoOffset =>
         /\ ret.body.offsetUsed = meta.boxOffset
         /\ ret.body.boxes = ViewOf(buf, meta.boxOffset).boxes
    /\ cache # Null /\ cache.payload = ret.body

(* A view at 232 after a set-region request that removed the cache of a
   view at 512. *)
C28_Witness ==
  /\ op.name = "getBoxes" /\ src.name = "xy"
  /\ op.dropped # Null
  /\ op.dropped.payload.offsetUsed = DEFAULT_HINT
  /\ meta.boxOffset = SLOT_SIZE
  /\ ret.body.offsetUsed = SLOT_SIZE
  /\ ret.body.boxes # op.dropped.payload.boxes

(***************************************************************************)
(* Offsets of the shortlist                                                *)
(***************************************************************************)
(* No offset at two places of a list of candidates *)
DistinctOffsets(list) == Cardinality(OffsetsOf(list)) = Len(list)

(* C29: the shortlist and the top list that autopick with a hint returns
   never hold the same offset twice, so a full shortlist is 15 distinct
   offsets. *)
C29_OffsetsDistinct ==
  (op.name = "xyAutoPickOffsetFast") =>
    /\ DistinctOffsets(ret.shortlist)
    /\ DistinctOffsets(ret.top)

(***************************************************************************)
(* The two decoders on one slice                                           *)
(***************************************************************************)
(* The verdict of the other decoder on the slice just decoded *)
OtherChecksumOK ==
  IF op.name = "decodePK6" THEN decryptPk6(slotBuf).checksumOK ELSE decodePK6(slotBuf).checksumOK

(* C30: decodePK6 and decryptPk6 return the same checksumOK for every slice
   of 232 bytes. *)
C30_SameChecksumOK ==
  (op.name \in {"decodePK6", "decryptPk6"} /\ Len(slotBuf) = SLOT_SIZE) =>
    ret.checksumOK = OtherChecksumOK

====
